---- MODULE Spec2Model ----
(***************************************************************************)
(* bitweiser: arithmetic over quantities of digital storage.               *)
(*                                                                         *)
(* The model follows the text -> value pipeline of src/interpreter:        *)
(*   num.rs     from_slice_radix (u64 accumulation, checked and unchecked) *)
(*   lexer.rs   Lexer::next over the input bytes                           *)
(*   parser.rs  the recursive-descent parser over Peekable<Lexer>          *)
(*   value.rs   the unit algebra                                           *)
(*   mod.rs     evaluate and Interpreter::interpret                        *)
(*                                                                         *)
(* Bytes are one-character strings.  A u64 is four 16-bit limbs, least     *)
(* significant first, so that 64-bit overflow is exact.  An f64 magnitude  *)
(* is an exact rational n/d * 2^e2 * 5^e5 (rounding is not modelled).      *)
(***************************************************************************)
EXTENDS Integers, Sequences, FiniteSets, TLC

VARIABLES
    mode,       \* which entry point this behaviour exercises
    input,      \* the source text, a sequence of bytes
    lexemes,    \* the pieces the text was assembled from (ghost, for the claims)
    phase,      \* "ready" before the call, "parsed" inside interpret, "done" after
    ast,        \* the Expr that Parser::parse returned to interpret
    curLexer,   \* the Lexer that is being pulled from, item by item
    items,      \* the items that Lexer::next has yielded so far, in order
    outcome,    \* what the call returned
    va,         \* left / receiver Value of a Value operation
    vb,         \* right Value of a Value operation
    vop         \* the Value operation applied (name and conversion target)

vars == <<mode, input, lexemes, phase, ast, curLexer, items, outcome, va, vb, vop>>

----------------------------------------------------------------------------
(* Option<T> *)

None == [some |-> FALSE]

Some(x) == [some |-> TRUE, v |-> x]

----------------------------------------------------------------------------
(* Bytes *)

DecDigits == <<"0", "1", "2", "3", "4", "5", "6", "7", "8", "9">>

LowerDigits == DecDigits \o <<"a", "b", "c", "d", "e", "f">>

UpperDigits == DecDigits \o <<"A", "B", "C", "D", "E", "F">>

AsciiWhitespace == {" ", "\t", "\n", "\r", "\f"}

SeqRange(s) == {s[i] : i \in 1..Len(s)}

\* char::to_digit(radix) for radix <= 16: the digit's value, or -1 for None.
DigitBelow(v, radix) == IF v < radix THEN v ELSE -1

ToDigit(c, radix) ==
    IF \E i \in 1..16 : LowerDigits[i] = c \/ UpperDigits[i] = c
    THEN DigitBelow((CHOOSE i \in 1..16 : LowerDigits[i] = c \/ UpperDigits[i] = c) - 1, radix)
    ELSE -1

\* The four "invalid digit" predicates handed to parse_nr.
InvalidDigitFor(radix, c) ==
    CASE radix = 2  -> c \notin {"0", "1"}
      [] radix = 8  -> c \notin {"0", "1", "2", "3", "4", "5", "6", "7"}
      [] radix = 10 -> c \notin SeqRange(DecDigits)
      [] radix = 16 -> c \notin (SeqRange(LowerDigits) \cup SeqRange(UpperDigits))

\* <[u8]>::trim_ascii_start
TrimAsciiStart(s) ==
    IF \E i \in 1..Len(s) : s[i] \notin AsciiWhitespace
    THEN SubSeq(s, CHOOSE i \in 1..Len(s) :
                      /\ s[i] \notin AsciiWhitespace
                      /\ \A j \in 1..(i - 1) : s[j] \in AsciiWhitespace,
                Len(s))
    ELSE <<>>

----------------------------------------------------------------------------
(* u64 as four 16-bit limbs, least significant limb first *)

LimbBase == 2^16

U64Zero == <<0, 0, 0, 0>>

U64Max == <<LimbBase - 1, LimbBase - 1, LimbBase - 1, LimbBase - 1>>

\* v * m + x over the integers, for small m and x: the low 64 bits and what
\* was carried out of them.
U64MulAdd(v, m, x) ==
    LET t1 == v[1] * m + x
        t2 == v[2] * m + (t1 \div LimbBase)
        t3 == v[3] * m + (t2 \div LimbBase)
        t4 == v[4] * m + (t3 \div LimbBase)
    IN  [val   |-> <<t1 % LimbBase, t2 % LimbBase, t3 % LimbBase, t4 % LimbBase>>,
         carry |-> t4 \div LimbBase]

\* None when the exact result left the 64-bit range, Some(low 64 bits) otherwise.
Checked(r) == IF r.carry # 0 THEN None ELSE Some(r.val)

\* u64::checked_mul by a small factor: None on overflow.
CheckedMul(v, m) == Checked(U64MulAdd(v, m, 0))

\* u64::checked_add of a small addend: None on overflow.
CheckedAdd(v, x) == Checked(U64MulAdd(v, 1, x))

\* Option::and_then(|v| v.checked_add(x))
AndThenCheckedAdd(m, x) == IF m.some THEN CheckedAdd(m.v, x) ELSE None

\* u64 division by a small divisor: quotient and remainder.
U64DivSmall(v, m) ==
    LET c4 == v[4]
        c3 == (c4 % m) * LimbBase + v[3]
        c2 == (c3 % m) * LimbBase + v[2]
        c1 == (c2 % m) * LimbBase + v[1]
    IN  [q |-> <<c1 \div m, c2 \div m, c3 \div m, c4 \div m>>, rem |-> c1 % m]

\* A small natural number as a u64.
U64FromNat(n) ==
    <<n % LimbBase, (n \div LimbBase) % LimbBase, 0, 0>>

\* a < b on u64
U64Less(a, b) ==
    \E i \in 1..4 : a[i] < b[i] /\ \A j \in (i + 1)..4 : a[j] = b[j]

----------------------------------------------------------------------------
(* num.rs *)

\* A can_not_overflow that lets one digit too many onto the unchecked path.
CanNotOverflowOffByOne(radix, digits) ==
    radix <= 16 /\ Len(digits) <= 8 * 2 + 1

\* can_not_overflow::<RADIX>(digits)
CanNotOverflow(radix, digits) ==
    radix <= 16 /\ Len(digits) <= 8 * 2

\* The loops of from_slice_radix run over digits[lo..hi] from a loop state st:
\* [tag |-> "Run", val, wrapped] while the loop goes on, or the ParseIntError
\* it returned with (the `?` leaves the loop).  loc is the digit's index, lo - 1.

\* One iteration of the unchecked loop: result = result * RADIX + x in plain u64
\* arithmetic; `wrapped` records whether a step left the 64-bit range (a panic
\* in a debug build, a silent wrap in a release one).
UncheckedAccumulate(r, wrapped) ==
    [tag |-> "Run", val |-> r.val, wrapped |-> wrapped \/ r.carry # 0]

UncheckedDigit(radix, loc, st, x) ==
    IF x = -1 THEN [tag |-> "InvalidDigit", index |-> loc]
    ELSE UncheckedAccumulate(U64MulAdd(st.val, radix, x), st.wrapped)

RECURSIVE UncheckedLoop(_, _, _, _, _)
UncheckedNext(radix, digits, lo, hi, st) ==
    IF st.tag # "Run" THEN st ELSE UncheckedLoop(radix, digits, lo + 1, hi, st)

UncheckedLoop(radix, digits, lo, hi, st) ==
    IF lo > hi THEN st
    ELSE UncheckedNext(radix, digits, lo, hi,
                       UncheckedDigit(radix, lo - 1, st, ToDigit(digits[lo], radix)))

\* One iteration of the checked loop: checked_mul, then checked_add.
CheckedAccumulate(a) ==
    IF ~a.some THEN [tag |-> "Overflow"]
    ELSE [tag |-> "Run", val |-> a.v, wrapped |-> FALSE]

CheckedDigit(radix, loc, st, x) ==
    IF x = -1 THEN [tag |-> "InvalidDigit", index |-> loc]
    ELSE CheckedAccumulate(AndThenCheckedAdd(CheckedMul(st.val, radix), x))

RECURSIVE CheckedLoop(_, _, _, _, _)
CheckedNext(radix, digits, lo, hi, st) ==
    IF st.tag # "Run" THEN st ELSE CheckedLoop(radix, digits, lo + 1, hi, st)

CheckedLoop(radix, digits, lo, hi, st) ==
    IF lo > hi THEN st
    ELSE CheckedNext(radix, digits, lo, hi,
                     CheckedDigit(radix, lo - 1, st, ToDigit(digits[lo], radix)))

\* Ok(result) once a loop has run over all digits.
LoopResult(st) ==
    IF st.tag = "Run" THEN [tag |-> "Ok", val |-> st.val, wrapped |-> st.wrapped] ELSE st

\* from_slice_radix::<RADIX>(digits): Ok(u64) or a ParseIntError.
FromSliceRadix(radix, digits) ==
    IF digits = <<>> THEN [tag |-> "Empty"]
    ELSE IF CanNotOverflow(radix, digits)
         THEN LoopResult(UncheckedLoop(radix, digits, 1, Len(digits),
                                       [tag |-> "Run", val |-> U64Zero, wrapped |-> FALSE]))
         ELSE LoopResult(CheckedLoop(radix, digits, 1, Len(digits),
                                     [tag |-> "Run", val |-> U64Zero, wrapped |-> FALSE]))

----------------------------------------------------------------------------
(* lexer.rs: parse_nr *)

\* s.iter().position(invalid_digit).unwrap_or(s.len())
ValidRunLen(radix, s) ==
    IF \E i \in 1..Len(s) : InvalidDigitFor(radix, s[i])
    THEN (CHOOSE i \in 1..Len(s) :
            /\ InvalidDigitFor(radix, s[i])
            /\ \A j \in 1..(i - 1) : ~InvalidDigitFor(radix, s[j])) - 1
    ELSE Len(s)

\* parse_nr::<RADIX>(s, invalid_digit): Ok((val, rest)) or the ParseIntError of
\* from_slice_radix on the maximal valid run.
ParseNrResult(val, rest) ==
    IF val.tag = "Ok"
    THEN [tag |-> "Ok", val |-> val.val, wrapped |-> val.wrapped, rest |-> rest]
    ELSE val

ParseNrSplit(radix, s, end) ==
    ParseNrResult(FromSliceRadix(radix, SubSeq(s, 1, end)), SubSeq(s, end + 1, Len(s)))

ParseNr(radix, s) == ParseNrSplit(radix, s, ValidRunLen(radix, s))

----------------------------------------------------------------------------
(* unit_prefix.rs, token.rs: units and tokens *)

DecPrefixes == <<"Kilo", "Mega", "Giga", "Tera", "Peta", "Exa">>

BinPrefixes == <<"Kibi", "Mebi", "Gibi", "Tebi", "Pebi", "Exbi">>

UnitPrefix == {"None"} \cup SeqRange(DecPrefixes) \cup SeqRange(BinPrefixes)

Unit == {"Bit", "Byte"}

FullUnit(prefix, unit) == [prefix |-> prefix, unit |-> unit]

FullUnits == [prefix : UnitPrefix, unit : Unit]

\* Token::new(kind, loc); loc is the half-open byte range <<start, end>>.
Token(kind, loc) == [kind |-> kind, loc |-> loc]

\* TokenKind values: the payload-free kinds, Integer(u64) and Unit(FullUnit).
TK(name) == [k |-> name]

TKInteger(val) == [k |-> "Integer", val |-> val]

TKUnit(fu) == [k |-> "Unit", unit |-> fu]

----------------------------------------------------------------------------
(* lexer.rs: Lexer *)

\* Lexer::new(input)
LexerOver(text, trimmed) ==
    [input |-> Some(trimmed), current |-> Len(text) - Len(trimmed)]

LexerNew(text) == LexerOver(text, TrimAsciiStart(text))

\* Lexer::trim_whitespace
Trimmed(lx, trimmed) ==
    [input |-> Some(trimmed), current |-> lx.current + (Len(lx.input.v) - Len(trimmed))]

TrimWhitespace(lx) ==
    IF lx.input.some THEN Trimmed(lx, TrimAsciiStart(lx.input.v)) ELSE lx

\* A span that is empty whatever the token's length.
SpanEmpty(lx, len) == <<lx.current, lx.current>>

\* Lexer::span(len)
Span(lx, len) == <<lx.current, lx.current + len>>

LexOk(tok) == [t |-> "Ok", tok |-> tok]

LexErr(kind, loc) == [t |-> "Err", err |-> [kind |-> kind, loc |-> loc]]

NoItem == [t |-> "None"]

\* A prefix table in which t and T stand for Mega.
PrefixIndexTeraAsMega(c) ==
    CASE c \in {"k", "K"} -> 1
      [] c \in {"m", "M", "t", "T"} -> 2
      [] c \in {"g", "G"} -> 3
      [] c \in {"p", "P"} -> 5
      [] c \in {"e", "E"} -> 6
      [] OTHER -> 0

\* The letter of a decimal prefix, in either case: its index in DecPrefixes,
\* 0 for any other byte (the twelve prefix arms of the match in Lexer::next).
PrefixIndex(c) ==
    CASE c \in {"k", "K"} -> 1
      [] c \in {"m", "M"} -> 2
      [] c \in {"g", "G"} -> 3
      [] c \in {"t", "T"} -> 4
      [] c \in {"p", "P"} -> 5
      [] c \in {"e", "E"} -> 6
      [] OTHER -> 0

SingleCharKind(c) ==
    CASE c = "-" -> "Minus"
      [] c = "+" -> "Plus"
      [] c = "*" -> "Star"
      [] c = "/" -> "Slash"
      [] c = "(" -> "LeftParen"
      [] c = ")" -> "RightParen"

\* A parse_as! whose token span leaves the radix prefix out.
ParseAsResultWithoutPrefix(lx, inp, offset, r) ==
    IF r.tag = "Ok"
    THEN [ok |-> TRUE,
          tok |-> Token(TKInteger(r.val), Span(lx, Len(inp) - Len(r.rest) - offset)),
          rest |-> r.rest, wrapped |-> r.wrapped]
    ELSE [ok |-> FALSE,
          item |-> LexErr([k |-> "InvalidDigit", why |-> r], lx.current + offset)]

\* parse_as!(rad, digits, offset): the Integer token and the rest, or the
\* InvalidDigit error located at current + offset.  `inp` is the whole
\* remaining input, whose length gives the token's length.
ParseAsResult(lx, inp, offset, r) ==
    IF r.tag = "Ok"
    THEN [ok |-> TRUE,
          tok |-> Token(TKInteger(r.val), Span(lx, Len(inp) - Len(r.rest))),
          rest |-> r.rest, wrapped |-> r.wrapped]
    ELSE [ok |-> FALSE,
          item |-> LexErr([k |-> "InvalidDigit", why |-> r], lx.current + offset)]

\* A parse_as! that locates its error at the start of the token.
ParseAsAtStart(lx, inp, radix, digits, offset) ==
    ParseAsResult(lx, inp, 0, ParseNr(radix, digits))

ParseAs(lx, inp, radix, digits, offset) ==
    ParseAsResult(lx, inp, offset, ParseNr(radix, digits))

\* A parse_unit! that locates its error at the byte after the prefix.
ParseUnitAtByte(lx, rest, prefix, len) ==
    IF rest # <<>> /\ Head(rest) = "b"
    THEN [ok |-> TRUE, tok |-> Token(TKUnit(FullUnit(prefix, "Bit")), Span(lx, len + 1)),
          rest |-> Tail(rest), wrapped |-> FALSE]
    ELSE IF rest # <<>> /\ Head(rest) = "B"
    THEN [ok |-> TRUE, tok |-> Token(TKUnit(FullUnit(prefix, "Byte")), Span(lx, len + 1)),
          rest |-> Tail(rest), wrapped |-> FALSE]
    ELSE [ok |-> FALSE, item |-> LexErr([k |-> "UnexpectedCharacter"], lx.current + len)]

\* parse_unit!(rest, prefix, len)
ParseUnit(lx, rest, prefix, len) ==
    IF rest # <<>> /\ Head(rest) = "b"
    THEN [ok |-> TRUE, tok |-> Token(TKUnit(FullUnit(prefix, "Bit")), Span(lx, len + 1)),
          rest |-> Tail(rest), wrapped |-> FALSE]
    ELSE IF rest # <<>> /\ Head(rest) = "B"
    THEN [ok |-> TRUE, tok |-> Token(TKUnit(FullUnit(prefix, "Byte")), Span(lx, len + 1)),
          rest |-> Tail(rest), wrapped |-> FALSE]
    ELSE [ok |-> FALSE, item |-> LexErr([k |-> "UnexpectedCharacter"], lx.current)]

\* The match of Lexer::next on a non-empty input, arms in source order.
LexMatch(lx, inp) ==
    LET c1 == inp[1]
        two == Len(inp) >= 2
        Simple(kind, len) ==
            [ok |-> TRUE, tok |-> Token(kind, Span(lx, len)),
             rest |-> SubSeq(inp, len + 1, Len(inp)), wrapped |-> FALSE]
    IN  CASE c1 \in {"-", "+", "*", "/", "(", ")"} -> Simple(TK(SingleCharKind(c1)), 1)
          [] c1 = "b" -> Simple(TKUnit(FullUnit("None", "Bit")), 1)
          [] c1 = "B" -> Simple(TKUnit(FullUnit("None", "Byte")), 1)
          [] c1 = "a" /\ two /\ inp[2] = "s" -> Simple(TK("As"), 2)
          [] c1 = "0" /\ two ->
                LET rest == SubSeq(inp, 3, Len(inp))
                IN  CASE inp[2] = "b" -> ParseAs(lx, inp, 2, rest, 2)
                      [] inp[2] = "o" -> ParseAs(lx, inp, 8, rest, 2)
                      [] inp[2] = "x" -> ParseAs(lx, inp, 16, rest, 2)
                      [] OTHER -> ParseAs(lx, inp, 10, inp, 0)
          [] c1 \in SeqRange(DecDigits) /\ ~(c1 = "0" /\ two) -> ParseAs(lx, inp, 10, inp, 0)
          [] PrefixIndex(c1) # 0 /\ two /\ inp[2] \in {"i", "I"} ->
                ParseUnit(lx, SubSeq(inp, 3, Len(inp)), BinPrefixes[PrefixIndex(c1)], 2)
          [] PrefixIndex(c1) # 0 /\ ~(two /\ inp[2] \in {"i", "I"}) ->
                ParseUnit(lx, Tail(inp), DecPrefixes[PrefixIndex(c1)], 1)
          [] OTHER -> [ok |-> FALSE, item |-> LexErr([k |-> "UnexpectedCharacter"], lx.current)]

\* Iterator::next for Lexer: the item (None, Some(Ok(token)) or Some(Err(e))),
\* the lexer afterwards, and whether an unchecked accumulation left 64 bits.
LexAdvance(lx, m) ==
    IF m.ok
    THEN [item |-> LexOk(m.tok),
          lexer |-> [input |-> Some(m.rest),
                     current |-> lx.current + (m.tok.loc[2] - m.tok.loc[1])],
          wrapped |-> m.wrapped]
    ELSE [item |-> m.item, lexer |-> lx, wrapped |-> FALSE]

\* A Lexer::next that keeps its input after Eof.
LexTrimmedKeepInput(lx) ==
    IF ~lx.input.some THEN [item |-> NoItem, lexer |-> lx, wrapped |-> FALSE]
    ELSE IF lx.input.v = <<>>
    THEN [item |-> LexOk(Token(TK("Eof"), Span(lx, 0))), lexer |-> lx, wrapped |-> FALSE]
    ELSE LexAdvance(lx, LexMatch(lx, lx.input.v))

LexTrimmed(lx) ==
    IF ~lx.input.some THEN [item |-> NoItem, lexer |-> lx, wrapped |-> FALSE]
    ELSE IF lx.input.v = <<>>
    THEN [item |-> LexOk(Token(TK("Eof"), Span(lx, 0))),
          lexer |-> [input |-> None, current |-> lx.current], wrapped |-> FALSE]
    ELSE LexAdvance(lx, LexMatch(lx, lx.input.v))

LexerNext(lx) == LexTrimmed(TrimWhitespace(lx))

----------------------------------------------------------------------------
(* f64 magnitudes, as exact rationals (n / d) * 2^e2 * 5^e5 with n and d        *)
(* coprime to each other and to 10, d > 0; zero is 0/1 * 2^0 * 5^0.  Rounding  *)
(* is not modelled.  d = 0 stands for a non-finite result (an infinity or NaN, *)
(* the quotient by zero), which every operation passes on.                     *)

Mag(n, d, e2, e5) == [n |-> n, d |-> d, e2 |-> e2, e5 |-> e5]

MagZero == Mag(0, 1, 0, 0)

NonFinite == Mag(0, 0, 0, 0)

Abs(n) == IF n < 0 THEN -n ELSE n

RECURSIVE Gcd(_, _)
Gcd(a, b) == IF b = 0 THEN a ELSE Gcd(b, a % b)

\* Moves the factors 2 and 5 of n and d into the exponents.
RECURSIVE MagStrip(_)
MagStrip(m) ==
    CASE m.n % 2 = 0 -> MagStrip([m EXCEPT !.n = @ \div 2, !.e2 = @ + 1])
      [] m.n % 2 # 0 /\ m.n % 5 = 0 -> MagStrip([m EXCEPT !.n = @ \div 5, !.e5 = @ + 1])
      [] m.n % 2 # 0 /\ m.n % 5 # 0 /\ m.d % 2 = 0 ->
            MagStrip([m EXCEPT !.d = @ \div 2, !.e2 = @ - 1])
      [] m.n % 2 # 0 /\ m.n % 5 # 0 /\ m.d % 2 # 0 /\ m.d % 5 = 0 ->
            MagStrip([m EXCEPT !.d = @ \div 5, !.e5 = @ - 1])
      [] OTHER -> m

MagReduce(n, d, g, e2, e5) == MagStrip(Mag(n \div g, d \div g, e2, e5))

\* The normal form of (n / d) * 2^e2 * 5^e5, d > 0.
MagNorm(n, d, e2, e5) ==
    IF n = 0 THEN MagZero ELSE MagReduce(n, d, Gcd(Abs(n), d), e2, e5)

MagInt(n) == MagNorm(n, 1, 0, 0)

\* `u64 as f64`: the factors 2 and 5 go into the exponents, and what is left
\* has to be within TLC's integers.
RECURSIVE F64FromU64Scaled(_, _, _)
F64FromU64Scaled(v, e2, e5) ==
    CASE v[3] = 0 /\ v[4] = 0 /\ v[2] < 2^14 -> MagNorm(v[1] + v[2] * LimbBase, 1, e2, e5)
      [] ~(v[3] = 0 /\ v[4] = 0 /\ v[2] < 2^14) /\ v[1] % 2 = 0 ->
            F64FromU64Scaled(U64DivSmall(v, 2).q, e2 + 1, e5)
      [] ~(v[3] = 0 /\ v[4] = 0 /\ v[2] < 2^14) /\ v[1] % 2 # 0 /\ U64DivSmall(v, 5).rem = 0 ->
            F64FromU64Scaled(U64DivSmall(v, 5).q, e2, e5 + 1)

F64FromU64(v) == F64FromU64Scaled(v, 0, 0)

\* f64 negation
MagNeg(x) == [x EXCEPT !.n = -@]

\* f64 multiplication
MagMul(x, y) ==
    IF x.d = 0 \/ y.d = 0 THEN NonFinite
    ELSE MagNorm(x.n * y.n, x.d * y.d, x.e2 + y.e2, x.e5 + y.e5)

\* f64 division
MagDiv(x, y) ==
    IF x.d = 0 \/ y.d = 0 \/ y.n = 0 THEN NonFinite
    ELSE MagNorm((IF y.n < 0 THEN -1 ELSE 1) * x.n * y.d, x.d * Abs(y.n),
                 x.e2 - y.e2, x.e5 - y.e5)

Least(a, b) == IF a <= b THEN a ELSE b

\* x + y over the common exponents m2 and m5.
MagAddAligned(x, y, m2, m5) ==
    MagNorm(x.n * 2^(x.e2 - m2) * 5^(x.e5 - m5) * y.d
              + y.n * 2^(y.e2 - m2) * 5^(y.e5 - m5) * x.d,
            x.d * y.d, m2, m5)

\* f64 addition
MagAdd(x, y) ==
    IF x.d = 0 \/ y.d = 0 THEN NonFinite
    ELSE MagAddAligned(x, y, Least(x.e2, y.e2), Least(x.e5, y.e5))

\* f64 subtraction
MagSub(x, y) == MagAdd(x, MagNeg(y))

----------------------------------------------------------------------------
(* unit_prefix.rs, token.rs: multipliers and the ordering of units *)

\* base.pow(exp) for a small base, as the constants KILO .. EXBI compute it.
RECURSIVE U64Pow(_, _)
U64Pow(base, exp) ==
    IF exp = 0 THEN U64FromNat(1) ELSE U64MulAdd(U64Pow(base, exp - 1), base, 0).val

IndexIn(seq, x) == CHOOSE i \in 1..Len(seq) : seq[i] = x

\* impl From<UnitPrefix> for u64
PrefixU64(prefix) ==
    CASE prefix = "None" -> U64FromNat(1)
      [] prefix \in SeqRange(DecPrefixes) -> U64Pow(1000, IndexIn(DecPrefixes, prefix))
      [] prefix \in SeqRange(BinPrefixes) -> U64Pow(1024, IndexIn(BinPrefixes, prefix))

\* impl From<Unit> for u64: Bit = 1, Byte = 8
UnitSize(unit) == IF unit = "Bit" THEN 1 ELSE 8

\* A total multiplier that leaves the size of the unit out.
FullUnitU64PrefixOnly(fu) == PrefixU64(fu.prefix)

\* impl From<FullUnit> for u64: the total multiplier
FullUnitU64(fu) == U64MulAdd(PrefixU64(fu.prefix), UnitSize(fu.unit), 0).val

\* A min that picks the unit with the larger multiplier.
FullUnitMax(left, right) ==
    IF U64Less(FullUnitU64(right), FullUnitU64(left)) THEN left ELSE right

\* std::cmp::min(left, right) under impl Ord for FullUnit, which compares the
\* total multipliers; min returns its first argument unless the second is less.
FullUnitMin(left, right) ==
    IF U64Less(FullUnitU64(right), FullUnitU64(left)) THEN right ELSE left

----------------------------------------------------------------------------
(* value.rs: Value *)

\* Value::new(value, unit)
Value(value, unit) == [value |-> value, unit |-> unit]

\* Option::or
OptionOr(a, b) == IF a.some THEN a ELSE b

ValueOk(v) == [ok |-> TRUE, v |-> v]

ValueErr(kind) == [ok |-> FALSE, err |-> kind]

\* A convert_to that rescales by target / source.
ConvertToInverted(self, unit) ==
    IF self.unit = Some(unit) THEN self
    ELSE IF ~self.unit.some THEN Value(self.value, Some(unit))
    ELSE Value(MagMul(self.value,
                      MagDiv(F64FromU64(FullUnitU64(unit)),
                             F64FromU64(FullUnitU64(self.unit.v)))),
               Some(unit))

\* A convert_to whose multiplier takes the prefix of the source alone, without
\* the size of its unit.
ConvertToIgnoringSourceUnit(self, unit) ==
    IF self.unit = Some(unit) THEN self
    ELSE IF ~self.unit.some THEN Value(self.value, Some(unit))
    ELSE Value(MagMul(self.value,
                      MagDiv(F64FromU64(PrefixU64(self.unit.v.prefix)),
                             F64FromU64(FullUnitU64(unit)))),
               Some(unit))

\* Value::convert_to(self, unit)
ConvertTo(self, unit) ==
    IF self.unit = Some(unit) THEN self
    ELSE IF ~self.unit.some THEN Value(self.value, Some(unit))
    ELSE Value(MagMul(self.value,
                      MagDiv(F64FromU64(FullUnitU64(self.unit.v)),
                             F64FromU64(FullUnitU64(unit)))),
               Some(unit))

\* A try_mul that fails as soon as either operand carries a unit.
TryMulEitherUnit(self, rhs) ==
    IF self.unit.some \/ rhs.unit.some THEN ValueErr("Cannot multiply two values with units")
    ELSE ValueOk(Value(MagMul(self.value, rhs.value), OptionOr(self.unit, rhs.unit)))

\* Value::try_mul(&self, rhs); the error is the message of its bail!.
TryMul(self, rhs) ==
    IF self.unit.some /\ rhs.unit.some THEN ValueErr("Cannot multiply two values with units")
    ELSE ValueOk(Value(MagMul(self.value, rhs.value), OptionOr(self.unit, rhs.unit)))

\* Value::try_div(&self, rhs); the error is the message of its bail!.
TryDiv(self, rhs) ==
    IF rhs.unit.some THEN ValueErr("Cannot divide by a value with a unit")
    ELSE ValueOk(Value(MagDiv(self.value, rhs.value), self.unit))

\* The tail of add and sub once both operands carry a unit.
SubPrecise(self, rhs, precise) ==
    Value(MagSub(ConvertTo(self, precise).value, ConvertTo(rhs, precise).value),
          Some(precise))

AddPrecise(self, rhs, precise) ==
    Value(MagAdd(ConvertTo(self, precise).value, ConvertTo(rhs, precise).value),
          Some(precise))

\* impl Sub for Value
ValueSub(self, rhs) ==
    IF self.unit = rhs.unit THEN Value(MagSub(self.value, rhs.value), self.unit)
    ELSE IF self.unit.some /\ rhs.unit.some
    THEN SubPrecise(self, rhs, FullUnitMin(self.unit.v, rhs.unit.v))
    ELSE Value(MagSub(self.value, rhs.value), OptionOr(self.unit, rhs.unit))

\* An add that keeps the left operand's unit when one side is dimensionless.
ValueAddLeftUnit(self, rhs) ==
    IF self.unit = rhs.unit THEN Value(MagAdd(self.value, rhs.value), self.unit)
    ELSE IF self.unit.some /\ rhs.unit.some
    THEN AddPrecise(self, rhs, FullUnitMin(self.unit.v, rhs.unit.v))
    ELSE Value(MagAdd(self.value, rhs.value), self.unit)

\* impl Add for Value
ValueAdd(self, rhs) ==
    IF self.unit = rhs.unit THEN Value(MagAdd(self.value, rhs.value), self.unit)
    ELSE IF self.unit.some /\ rhs.unit.some
    THEN AddPrecise(self, rhs, FullUnitMin(self.unit.v, rhs.unit.v))
    ELSE Value(MagAdd(self.value, rhs.value), OptionOr(self.unit, rhs.unit))

\* impl Neg for Value
ValueNeg(self) == Value(MagNeg(self.value), self.unit)

\* impl Display for UnitPrefix
DisplayUnitPrefix(prefix) ==
    CASE prefix = "None" -> <<>>
      [] prefix = "Kilo" -> <<"K">>
      [] prefix = "Mega" -> <<"M">>
      [] prefix = "Giga" -> <<"G">>
      [] prefix = "Tera" -> <<"T">>
      [] prefix = "Peta" -> <<"P">>
      [] prefix = "Exa" -> <<"E">>
      [] prefix = "Kibi" -> <<"K", "i">>
      [] prefix = "Mebi" -> <<"M", "i">>
      [] prefix = "Gibi" -> <<"G", "i">>
      [] prefix = "Tebi" -> <<"T", "i">>
      [] prefix = "Pebi" -> <<"P", "i">>
      [] prefix = "Exbi" -> <<"E", "i">>

\* impl Display for Unit
DisplayUnit(unit) == IF unit = "Bit" THEN <<"b">> ELSE <<"B">>

\* impl Display for FullUnit: write!(f, "{}{}", self.0, self.1)
DisplayFullUnit(fu) == DisplayUnitPrefix(fu.prefix) \o DisplayUnit(fu.unit)

RECURSIVE DecimalDigitsOf(_)
DecimalDigitsOf(n) ==
    IF n < 10 THEN <<DecDigits[n + 1]>>
    ELSE Append(DecimalDigitsOf(n \div 10), DecDigits[(n % 10) + 1])

\* `{}` of an f64 holding an integer: its decimal digits, after a `-` when
\* negative, with no fraction and no exponent.
DisplayF64(x) ==
    (IF x.n < 0 THEN <<"-">> ELSE <<>>) \o DecimalDigitsOf(Abs(x.n) * (2 ^ x.e2) * (5 ^ x.e5))

\* impl Display for Value
DisplayValue(self) ==
    IF self.unit.some THEN DisplayF64(self.value) \o DisplayFullUnit(self.unit.v)
    ELSE DisplayF64(self.value)

----------------------------------------------------------------------------
(* Integer literals: the inputs of SpecNum *)

\* Longest run of repeated digits after the head digit of a literal.
MaxFill == 65

\* Most leading zeros put before a literal's head digit.
MaxZeros == 1

Rep(x, n) == [i \in 1..n |-> x]

Radixes == {2, 8, 10, 16}

RadixPrefix(radix) ==
    CASE radix = 2 -> <<"0", "b">>
      [] radix = 8 -> <<"0", "o">>
      [] radix = 16 -> <<"0", "x">>
      [] radix = 10 -> <<>>

HeadDigits(radix) ==
    CASE radix = 2 -> {"1"}
      [] radix = 8 -> {"1", "2", "7"}
      [] radix = 10 -> {"1", "2", "9"}
      [] radix = 16 -> {"1", "a", "F"}

FillDigits(radix) ==
    CASE radix = 2 -> {"0", "1"}
      [] radix = 8 -> {"0", "7"}
      [] radix = 10 -> {"0", "5", "9"}
      [] radix = 16 -> {"0", "9", "f", "F"}

\* Decimal runs around 2^64 = 18446744073709551616.
DecBoundaryRuns ==
    LET stem == <<"1","8","4","4","6","7","4","4","0","7","3","7","0","9","5","5","1","6">>
    IN  {stem \o <<"1", "5">>, stem \o <<"1", "6">>, stem \o <<"2", "0">>,
         stem \o <<"0", "9">>, <<"0">> \o stem \o <<"1", "5">>}

\* zeros, a head digit, then one digit repeated; and the decimal boundary runs.
DigitRuns(radix) ==
    {Rep("0", z) \o <<h>> \o Rep(f, k) :
        z \in 0..MaxZeros, h \in HeadDigits(radix), f \in FillDigits(radix), k \in 0..MaxFill}
    \cup {<<"0">>}
    \cup (IF radix = 10 THEN DecBoundaryRuns ELSE {})

\* What may follow the literal: nothing, or a byte that is no digit of any radix.
NumSuffixes == {<<>>, <<"+">>}

NumInit ==
    /\ mode = "num"
    /\ \E radix \in Radixes : \E run \in DigitRuns(radix) : \E suffix \in NumSuffixes :
          /\ lexemes = <<RadixPrefix(radix), run, suffix>>
          /\ input = RadixPrefix(radix) \o run \o suffix
    /\ phase = "ready"
    /\ ast = None
    /\ curLexer = None /\ items = <<>>
    /\ outcome = None
    /\ va = None /\ vb = None /\ vop = None

\* The first pull from a fresh lexer over the literal.
LexNumber ==
    /\ mode = "num" /\ phase = "ready"
    /\ outcome' = LexerNext(LexerNew(input))
    /\ phase' = "done"
    /\ UNCHANGED <<mode, input, lexemes, curLexer, items, ast, va, vb, vop>>

NumNext == LexNumber

SpecNum == NumInit /\ [][NumNext]_vars

----------------------------------------------------------------------------
(* Value operations: the inputs and steps of SpecValue *)

\* Widest gap, in bits, between the scales of two magnitudes that are added.
MaxAlign == 24

LeftMagnitudes == {-1, 0, 1, 2, 42}

RightMagnitudes == {0, 1, 2, 3}

OptionalUnits == {None} \cup {Some(fu) : fu \in FullUnits}

\* Whether the sum of magnitudes in these units stays within TLC's integers.
ScaleGap(x, y) == Abs(x.e2 - y.e2) + 3 * Abs(x.e5 - y.e5)

AddFits(ua, ub) ==
    (ua.some /\ ub.some) =>
        ScaleGap(F64FromU64(FullUnitU64(ua.v)), F64FromU64(FullUnitU64(ub.v))) <= MaxAlign

ValueInit ==
    /\ mode = "value"
    /\ input = <<>> /\ lexemes = <<>>
    /\ phase = "ready"
    /\ ast = None
    /\ curLexer = None /\ items = <<>>
    /\ outcome = None
    /\ \E a \in LeftMagnitudes, ua \in OptionalUnits :
          /\ va = Value(MagInt(a), ua)
          /\ \/ /\ \E b \in RightMagnitudes, ub \in OptionalUnits :
                      vb = Value(MagInt(b), ub)
                /\ \E op \in {"add", "sub", "try_mul", "try_div"} :
                      vop = [op |-> op]
                /\ vop.op \in {"add", "sub"} => AddFits(va.unit, vb.unit)
             \/ /\ vb = None
                /\ \/ vop = [op |-> "neg"]
                   \/ vop = [op |-> "display"]
                   \/ \E target \in FullUnits : vop = [op |-> "convert_to", target |-> target]

ValueDone(result) ==
    /\ outcome' = result
    /\ phase' = "done"
    /\ UNCHANGED <<mode, input, lexemes, curLexer, items, ast, va, vb, vop>>

ApplyAdd ==
    /\ mode = "value" /\ phase = "ready" /\ vop.op = "add"
    /\ ValueDone(ValueAdd(va, vb))

ApplySub ==
    /\ mode = "value" /\ phase = "ready" /\ vop.op = "sub"
    /\ ValueDone(ValueSub(va, vb))

ApplyTryMul ==
    /\ mode = "value" /\ phase = "ready" /\ vop.op = "try_mul"
    /\ ValueDone(TryMul(va, vb))

ApplyTryDiv ==
    /\ mode = "value" /\ phase = "ready" /\ vop.op = "try_div"
    /\ ValueDone(TryDiv(va, vb))

ApplyConvertTo ==
    /\ mode = "value" /\ phase = "ready" /\ vop.op = "convert_to"
    /\ ValueDone(ConvertTo(va, vop.target))

ApplyNeg ==
    /\ mode = "value" /\ phase = "ready" /\ vop.op = "neg"
    /\ ValueDone(ValueNeg(va))

\* format!("{}", value)
ApplyDisplay ==
    /\ mode = "value" /\ phase = "ready" /\ vop.op = "display"
    /\ ValueDone(DisplayValue(va))

\* v.convert_to(b).convert_to(a): the converted value is converted back to
\* the unit v carried.
ApplyConvertBack ==
    /\ mode = "value" /\ phase = "done" /\ vop.op = "convert_to" /\ va.unit.some
    /\ outcome' = ConvertTo(outcome, va.unit.v)
    /\ phase' = "back"
    /\ UNCHANGED <<mode, input, lexemes, curLexer, items, ast, va, vb, vop>>

ValueNext ==
    \/ ApplyAdd
    \/ ApplySub
    \/ ApplyTryMul
    \/ ApplyTryDiv
    \/ ApplyConvertTo
    \/ ApplyNeg
    \/ ApplyDisplay
    \/ ApplyConvertBack

SpecValue == ValueInit /\ [][ValueNext]_vars

----------------------------------------------------------------------------
(* expr.rs: Expr and OperatorExpr *)

Literal(kind, unit) == [e |-> "Literal", kind |-> kind, unit |-> unit]

Grouping(inner) == [e |-> "Grouping", inner |-> inner]

ArithmeticOrLogical(left, operator, right) ==
    [e |-> "ArithmeticOrLogical", left |-> left, operator |-> operator, right |-> right]

TypeCastExpr(left, unit) == [e |-> "TypeCast", left |-> left, unit |-> unit]

UnaryExpr(operator, right) == [e |-> "Unary", operator |-> operator, right |-> right]

----------------------------------------------------------------------------
(* parser.rs: Parser over Peekable<Lexer>.  Every parsing function returns   *)
(* Ok(expr) with the iterator afterwards, Err(SyntaxErrorKind), or a panic.  *)

\* Parser::new: lexer.peekable(); nothing is peeked yet.
ParserNew(lexer) == [lexer |-> lexer, peeked |-> None]

\* Peekable::peek pulls one item from the lexer, unless one is held already,
\* and holds it (also when it is None).
IterFill(r) == [lexer |-> r.lexer, peeked |-> Some(r.item)]

IterPeek(it) == IF it.peeked.some THEN it ELSE IterFill(LexerNext(it.lexer))

\* Peekable::next hands out the held item, or pulls one.
IterTaken(r) == [item |-> r.item, iter |-> [lexer |-> r.lexer, peeked |-> None]]

IterNext(it) ==
    IF it.peeked.some
    THEN [item |-> it.peeked.v, iter |-> [it EXCEPT !.peeked = None]]
    ELSE IterTaken(LexerNext(it.lexer))

ParseOk(expr, it) == [t |-> "Ok", v |-> expr, iter |-> it]

ParseErr(kind) == [t |-> "Err", err |-> kind]

Panicked == [t |-> "Panic"]

\* SyntaxErrorKind::Lex(e), what `?` makes of a LexError
LexFail(e) == ParseErr([k |-> "Lex", e |-> e])

\* ParseErrorKind
PEK(name) == [k |-> name]

UnexpectedToken(expected) == [k |-> "UnexpectedToken", expected |-> expected]

\* Parser::bump: self.iter.next().unwrap().unwrap()
BumpItem(n) ==
    IF n.item.t = "Ok" THEN [t |-> "Tok", tok |-> n.item.tok, iter |-> n.iter]
    ELSE Panicked

Bump(it) == BumpItem(IterNext(it))

\* error!(kind, self.bump()).into()
ErrorWith(kind, b) ==
    IF b.t = "Panic" THEN Panicked
    ELSE ParseErr([k |-> "Parse", kind |-> kind, token |-> b.tok])

\* bump_if!(self, kinds): `peek()?` leaves the enclosing function on a lexical
\* error; a token of one of the kinds is bumped, anything else stays.
BumpIfTaken(b) == [t |-> "Some", tok |-> b.tok, iter |-> b.iter]

BumpIfPeeked(p, kinds) ==
    IF p.peeked.v.t = "Err" THEN [t |-> "Lex", err |-> p.peeked.v.err]
    ELSE IF p.peeked.v.t = "Ok" /\ p.peeked.v.tok.kind.k \in kinds
    THEN BumpIfTaken(Bump(p))
    ELSE [t |-> "None", iter |-> p]

BumpIf(it, kinds) == BumpIfPeeked(IterPeek(it), kinds)

\* A consume that hands back the token taken by the trailing bump.
ConsumeOkOrBumped(m, kind, b) ==
    IF b.t = "Panic" THEN Panicked
    ELSE IF m.t = "Some" THEN [t |-> "Ok", v |-> b.tok, iter |-> b.iter]
    ELSE ParseErr([k |-> "Parse", kind |-> kind, token |-> b.tok])

\* bump_if!(..).ok_or(error!(kind, self.bump()).into()): the argument of
\* ok_or is evaluated before ok_or is called, so self.bump() runs whether
\* or not bump_if! took a token.
ConsumeOkOr(m, kind, b) ==
    IF b.t = "Panic" THEN Panicked
    ELSE IF m.t = "Some" THEN [t |-> "Ok", v |-> m.tok, iter |-> b.iter]
    ELSE ParseErr([k |-> "Parse", kind |-> kind, token |-> b.tok])

ConsumeAfter(m, kind) ==
    IF m.t = "Lex" THEN LexFail(m.err) ELSE ConsumeOkOr(m, kind, Bump(m.iter))

\* Parser::consume_unit
ConsumeUnit(it) == ConsumeAfter(BumpIf(it, {"Unit"}), PEK("ExpectedUnit"))

\* Parser::consume_r_paren
ConsumeRParen(it) == ConsumeAfter(BumpIf(it, {"RightParen"}), UnexpectedToken(")"))

RECURSIVE Expression(_)
RECURSIVE Unary(_)
RECURSIVE FactorLoop(_)
RECURSIVE TermLoop(_)

\* Parser::primary
GroupClose(inner, c) == IF c.t # "Ok" THEN c ELSE ParseOk(Grouping(inner), c.iter)

GroupInner(r) == IF r.t # "Ok" THEN r ELSE GroupClose(r.v, ConsumeRParen(r.iter))

PrimaryGroup(b) == GroupInner(Expression(b.iter))

LiteralWith(kind, m) ==
    IF m.t = "Lex" THEN LexFail(m.err)
    ELSE IF m.t = "Some" THEN ParseOk(Literal(kind, Some(m.tok)), m.iter)
    ELSE ParseOk(Literal(kind, None), m.iter)

PrimaryLiteral(b) == LiteralWith(b.tok, BumpIf(b.iter, {"Unit"}))

PrimaryPeeked(p) ==
    IF p.peeked.v.t = "Err" THEN LexFail(p.peeked.v.err)
    ELSE IF p.peeked.v.t = "Ok" /\ p.peeked.v.tok.kind.k = "Integer"
    THEN PrimaryLiteral(Bump(p))
    ELSE IF p.peeked.v.t = "Ok" /\ p.peeked.v.tok.kind.k = "LeftParen"
    THEN PrimaryGroup(Bump(p))
    ELSE ErrorWith(PEK("ExpectedExpression"), Bump(p))

Primary(it) == PrimaryPeeked(IterPeek(it))

\* Parser::unary
UnaryWrap(operator, r) ==
    IF r.t # "Ok" THEN r ELSE ParseOk(UnaryExpr(operator, r.v), r.iter)

UnaryAfter(m) ==
    IF m.t = "Lex" THEN LexFail(m.err)
    ELSE IF m.t = "Some" THEN UnaryWrap(m.tok, Unary(m.iter))
    ELSE Primary(m.iter)

Unary(it) == UnaryAfter(BumpIf(it, {"Minus"}))

\* Parser::type_cast
TypeCastUnit(left, c) ==
    IF c.t # "Ok" THEN c ELSE ParseOk(TypeCastExpr(left, c.v), c.iter)

TypeCastAs(left, m) ==
    IF m.t = "Lex" THEN LexFail(m.err)
    ELSE IF m.t = "Some" THEN TypeCastUnit(left, ConsumeUnit(m.iter))
    ELSE ParseOk(left, m.iter)

TypeCastAfter(r) == IF r.t # "Ok" THEN r ELSE TypeCastAs(r.v, BumpIf(r.iter, {"As"}))

TypeCast(it) == TypeCastAfter(Unary(it))

\* Parser::factor
FactorOperatorsAndPlus == {"Slash", "Star", "Plus"}

FactorOperators == {"Slash", "Star"}

FactorRight(left, operator, r) ==
    IF r.t # "Ok" THEN r
    ELSE FactorLoop(ParseOk(ArithmeticOrLogical(left, operator, r.v), r.iter))

FactorOp(left, m) ==
    IF m.t = "Lex" THEN LexFail(m.err)
    ELSE IF m.t = "Some" THEN FactorRight(left, m.tok, TypeCast(m.iter))
    ELSE ParseOk(left, m.iter)

FactorLoop(r) == IF r.t # "Ok" THEN r ELSE FactorOp(r.v, BumpIf(r.iter, FactorOperators))

Factor(it) == FactorLoop(TypeCast(it))

\* Parser::term
TermOperators == {"Minus", "Plus"}

TermRight(left, operator, r) ==
    IF r.t # "Ok" THEN r
    ELSE TermLoop(ParseOk(ArithmeticOrLogical(left, operator, r.v), r.iter))

TermOp(left, m) ==
    IF m.t = "Lex" THEN LexFail(m.err)
    ELSE IF m.t = "Some" THEN TermRight(left, m.tok, Factor(m.iter))
    ELSE ParseOk(left, m.iter)

TermLoop(r) == IF r.t # "Ok" THEN r ELSE TermOp(r.v, BumpIf(r.iter, TermOperators))

Term(it) == TermLoop(Factor(it))

\* Parser::expression
Expression(it) == Term(it)

\* Parser::parse
ParseEof(expr, m) ==
    IF m.t = "Lex" THEN LexFail(m.err)
    ELSE IF m.t = "Some" THEN ParseOk(expr, m.iter)
    ELSE ErrorWith(PEK("ExpectedEof"), Bump(m.iter))

ParseAfter(r) == IF r.t # "Ok" THEN r ELSE ParseEof(r.v, BumpIf(r.iter, {"Eof"}))

Parse(it) == ParseAfter(Expression(it))

----------------------------------------------------------------------------
(* mod.rs: SyntaxError, evaluate, Interpreter::interpret *)

SyntaxError(kind, loc) == [kind |-> kind, loc |-> loc]

\* impl From<SyntaxErrorKind> for SyntaxError
FromSyntaxErrorKind(kind) ==
    IF kind.k = "Lex" THEN SyntaxError(kind, <<kind.e.loc, kind.e.loc + 1>>)
    ELSE SyntaxError(kind, kind.token.loc)

\* ValueError::new(e, operator.clone()).into()
FromValueError(kind, token) ==
    FromSyntaxErrorKind([k |-> "Value", kind |-> kind, token |-> token])

EvalOk(v) == [t |-> "Ok", v |-> v]

EvalErr(e) == [t |-> "Err", err |-> e]

MapErr(r, operator) == IF r.ok THEN EvalOk(r.v) ELSE EvalErr(FromValueError(r.err, operator))

\* unit.as_ref().map(|u| match u.kind() { TK::Unit(unit) => unit, .. })
UnitOf(unit) == IF unit.some THEN Some(unit.v.kind.unit) ELSE None

\* unreachable!(..): the panic of an arm that no tree of the parser reaches.
Unreachable == [t |-> "Unreachable"]

RECURSIVE Evaluate(_)

EvalApply(operator, left, r) ==
    IF r.t # "Ok" THEN r
    ELSE CASE operator.kind.k = "Plus" -> EvalOk(ValueAdd(left, r.v))
           [] operator.kind.k = "Minus" -> EvalOk(ValueSub(left, r.v))
           [] operator.kind.k = "Star" -> MapErr(TryMul(left, r.v), operator)
           [] operator.kind.k = "Slash" -> MapErr(TryDiv(left, r.v), operator)
           [] OTHER -> Unreachable

EvalBinary(operator, l, right) ==
    IF l.t # "Ok" THEN l ELSE EvalApply(operator, l.v, Evaluate(right))

EvalCast(l, unit) ==
    IF l.t # "Ok" THEN l
    ELSE IF unit.kind.k = "Unit" THEN EvalOk(ConvertTo(l.v, unit.kind.unit))
    ELSE Unreachable

EvalNeg(operator, r) ==
    IF r.t # "Ok" THEN r
    ELSE IF operator.kind.k = "Minus" THEN EvalOk(ValueNeg(r.v))
    ELSE Unreachable

EvalLiteral(kind, unit) ==
    IF kind.kind.k # "Integer" THEN Unreachable
    ELSE IF unit.some /\ unit.v.kind.k # "Unit" THEN Unreachable
    ELSE EvalOk(Value(F64FromU64(kind.kind.val), UnitOf(unit)))

Evaluate(expr) ==
    CASE expr.e = "ArithmeticOrLogical" ->
            EvalBinary(expr.operator, Evaluate(expr.left), expr.right)
      [] expr.e = "TypeCast" -> EvalCast(Evaluate(expr.left), expr.unit)
      [] expr.e = "Unary" -> EvalNeg(expr.operator, Evaluate(expr.right))
      [] expr.e = "Grouping" -> Evaluate(expr.inner)
      [] expr.e = "Literal" -> EvalLiteral(expr.kind, expr.unit)

----------------------------------------------------------------------------
(* Spec: Interpreter::interpret over texts assembled from a few lexemes *)

\* The longest text, in lexemes.
MaxLexemes == 5

Lexemes ==
    { <<"1">>, <<"2">>, <<"+">>, <<"-">>, <<"*">>, <<"/">>, <<"(">>, <<")">>,
      <<" ", "a", "s", " ">>, <<"K", "i", "B">>, <<"x">> }

RECURSIVE Concat(_, _)
Concat(pieces, i) ==
    IF i > Len(pieces) THEN <<>> ELSE pieces[i] \o Concat(pieces, i + 1)

\* Longer texts: two * or / over operands with and without a unit, the
\* right pair in parentheses or not, then nothing, a stray byte or a stray `)`.
ChainOperands == {<<(<<"1">>)>>, <<(<<"1">>), (<<"K", "i", "B">>)>>}

ChainTexts ==
    {a \o <<o1>> \o (IF grouped THEN <<(<<"(">>)>> ELSE <<>>) \o b \o <<o2>> \o c
       \o (IF grouped THEN <<(<<")">>)>> ELSE <<>>) \o tail :
        a \in ChainOperands, b \in ChainOperands, c \in ChainOperands,
        o1 \in {<<"*">>, <<"/">>}, o2 \in {<<"*">>, <<"/">>}, grouped \in BOOLEAN,
        tail \in {<<>>, <<(<<"x">>)>>, <<(<<")">>)>>}}

ExprInit ==
    /\ mode = "expr"
    /\ \/ \E n \in 0..MaxLexemes : \E pieces \in [1..n -> Lexemes] :
             /\ lexemes = pieces
             /\ input = Concat(pieces, 1)
       \/ \E pieces \in ChainTexts :
             /\ lexemes = pieces
             /\ input = Concat(pieces, 1)
    /\ phase = "ready"
    /\ ast = None
    /\ curLexer = None /\ items = <<>>
    /\ outcome = None
    /\ va = None /\ vb = None /\ vop = None

\* interpret, up to `parser.parse()?`: a syntax error or a panic ends the call.
ParseReturned(r) ==
    /\ phase' = IF r.t = "Ok" THEN "parsed" ELSE "done"
    /\ ast' = IF r.t = "Ok" THEN Some(r.v) ELSE None
    /\ outcome' = IF r.t = "Ok" THEN None
                  ELSE IF r.t = "Err" THEN EvalErr(FromSyntaxErrorKind(r.err))
                  ELSE Panicked
    /\ UNCHANGED <<mode, input, lexemes, curLexer, items, va, vb, vop>>

InterpretParse ==
    /\ mode = "expr" /\ phase = "ready"
    /\ ParseReturned(Parse(ParserNew(LexerNew(input))))

\* interpret, the tail call evaluate(&expr)
InterpretEvaluate ==
    /\ mode = "expr" /\ phase = "parsed"
    /\ outcome' = Evaluate(ast.v)
    /\ phase' = "done"
    /\ UNCHANGED <<mode, input, lexemes, curLexer, items, ast, va, vb, vop>>

Next ==
    \/ InterpretParse
    \/ InterpretEvaluate

Spec == ExprInit /\ [][Next]_vars

----------------------------------------------------------------------------
(* SpecLex: a Lexer pulled item by item, to the end of the text and beyond *)

\* The longest free text, in bytes.
MaxBytes == 5

\* Pulls made after the lexer has stopped yielding tokens (None or an error).
MaxIdlePulls == 2

LexBytes == {"0", "1", "x", "b", "K", "i", "a", "s", " ", "+"}

PrefixLetters == {"k", "m", "g", "t", "p", "e", "K", "M", "G", "T", "P", "E"}

\* Every spelling of a unit: b or B alone, or after a prefix letter and an
\* optional i / I.
UnitSpellings ==
    {<<"b">>, <<"B">>}
    \cup {<<p>> \o i \o <<u>> : p \in PrefixLetters, i \in {<<>>, <<"i">>, <<"I">>}, u \in {"b", "B"}}

\* What follows a radix prefix: nothing, whitespace, a byte that is no digit,
\* or a digit (of some radix, of every radix).
RadixFollowers ==
    {<<>>, <<" ", "1">>, <<"g">>, <<"+">>, <<"2">>, <<"8">>, <<"a">>, <<"1">>, <<"1", "g">>,
     <<"1", "2">>, <<"7", "8">>}

\* The text is free bytes, or a unit spelling or a radix prefix in a context.
FreeText ==
    \/ \E n \in 0..MaxBytes : \E text \in [1..n -> LexBytes] :
          lexemes = <<text>> /\ input = text
    \/ \E lead \in {<<>>, <<" ">>}, unit \in UnitSpellings, rest \in {<<>>, <<"+">>, <<" ", "1">>} :
          lexemes = <<lead, unit, rest>> /\ input = lead \o unit \o rest
    \/ \E lead \in {<<>>, <<" ">>}, letter \in {"b", "o", "x"}, rest \in RadixFollowers :
          lexemes = <<lead, <<"0", letter>>, rest>> /\ input = lead \o <<"0", letter>> \o rest

LexInit ==
    /\ mode = "lex"
    /\ FreeText
    /\ phase = "lexing"
    /\ ast = None
    /\ curLexer = Some(LexerNew(input))
    /\ items = <<>>
    /\ outcome = None
    /\ va = None /\ vb = None /\ vop = None

\* How many of the items are no token (None, or an error).
Idle(its) == Cardinality({i \in DOMAIN its : its[i].t # "Ok"})

Pulled(r) ==
    /\ items' = Append(items, r.item)
    /\ curLexer' = Some(r.lexer)
    /\ phase' = IF Idle(Append(items, r.item)) >= MaxIdlePulls THEN "done" ELSE "lexing"
    /\ UNCHANGED <<mode, input, lexemes, ast, outcome, va, vb, vop>>

\* One call of Lexer::next.
LexPull ==
    /\ mode = "lex" /\ phase = "lexing"
    /\ Pulled(LexerNext(curLexer.v))

LexNext == LexPull

SpecLex == LexInit /\ [][LexNext]_vars

----------------------------------------------------------------------------
(* SpecText: Interpreter::interpret over free texts *)

TextInit ==
    /\ mode = "expr"
    /\ FreeText
    /\ phase = "ready"
    /\ ast = None
    /\ curLexer = None /\ items = <<>>
    /\ outcome = None
    /\ va = None /\ vb = None /\ vop = None

SpecText == TextInit /\ [][Next]_vars

----------------------------------------------------------------------------
(* C4 - C7: the unit algebra *)

ValueApplied(ops) == mode = "value" /\ phase = "done" /\ vop.op \in ops

\* C4: try_mul fails exactly when both operands carry a unit, and try_div
\* fails exactly when the divisor carries a unit, whatever the magnitudes
\* are; the failures are the multiplication error (MultiplicationByUnit) and
\* the division error (DivisionByUnit) respectively.
C4_MulDivFailIffUnits ==
    /\ ValueApplied({"try_mul"}) =>
          /\ ~outcome.ok <=> (va.unit.some /\ vb.unit.some)
          /\ ~outcome.ok => outcome.err = "Cannot multiply two values with units"
    /\ ValueApplied({"try_div"}) =>
          /\ ~outcome.ok <=> vb.unit.some
          /\ ~outcome.ok => outcome.err = "Cannot divide by a value with a unit"

\* A value with a unit was divided by a dimensionless zero, and that succeeded.
C4_Witness ==
    /\ ValueApplied({"try_div"})
    /\ va.unit.some /\ vb = Value(MagZero, None)
    /\ outcome.ok

\* The operand's magnitude rescaled by its own multiplier over that of `to`.
Rescaled(v, to) ==
    MagMul(v.value, MagDiv(F64FromU64(FullUnitU64(v.unit.v)), F64FromU64(FullUnitU64(to))))

\* C5: add and sub of two Values that both carry a unit give the unit with
\* the smaller total multiplier, and the sum (difference) of the magnitudes
\* after each is rescaled by its own multiplier over that smaller one.
C5_AddSubBothUnits ==
    (ValueApplied({"add", "sub"}) /\ va.unit.some /\ vb.unit.some) =>
        LET smaller == IF U64Less(FullUnitU64(vb.unit.v), FullUnitU64(va.unit.v))
                       THEN vb.unit.v ELSE va.unit.v
        IN  /\ ~U64Less(FullUnitU64(va.unit.v), FullUnitU64(smaller))
            /\ ~U64Less(FullUnitU64(vb.unit.v), FullUnitU64(smaller))
            /\ outcome.unit = Some(smaller)
            /\ outcome.value =
                  IF vop.op = "add"
                  THEN MagAdd(Rescaled(va, smaller), Rescaled(vb, smaller))
                  ELSE MagSub(Rescaled(va, smaller), Rescaled(vb, smaller))

\* 2 KiB + 3 MiB came out as 3074 KiB.
C5_Witness ==
    /\ ValueApplied({"add"})
    /\ va = Value(MagInt(2), Some(FullUnit("Kibi", "Byte")))
    /\ vb = Value(MagInt(3), Some(FullUnit("Mebi", "Byte")))
    /\ outcome = Value(MagInt(3074), Some(FullUnit("Kibi", "Byte")))

\* C6: add and sub with at most one operand carrying a unit combine the
\* magnitudes as they are, and the result carries the unit of the operand
\* that has one, on whichever side it is; with none it is dimensionless.
C6_AddSubDimensionless ==
    (ValueApplied({"add", "sub"}) /\ ~(va.unit.some /\ vb.unit.some)) =>
        /\ outcome.value = IF vop.op = "add" THEN MagAdd(va.value, vb.value)
                           ELSE MagSub(va.value, vb.value)
        /\ va.unit.some => outcome.unit = va.unit
        /\ vb.unit.some => outcome.unit = vb.unit
        /\ (~va.unit.some /\ ~vb.unit.some) => outcome.unit = None

\* 1 + 2 KiB came out as 3 KiB.
C6_Witness ==
    /\ ValueApplied({"add"})
    /\ va = Value(MagInt(1), None)
    /\ vb = Value(MagInt(2), Some(FullUnit("Kibi", "Byte")))
    /\ outcome = Value(MagInt(3), Some(FullUnit("Kibi", "Byte")))

\* C7: convert_to(target) returns a Value whose unit is target; its magnitude
\* is unchanged when the value carries target already or is dimensionless,
\* and otherwise the quantity is kept: new magnitude times the target's
\* multiplier is old magnitude times the source's multiplier.
C7_ConvertTo ==
    ValueApplied({"convert_to"}) =>
        /\ outcome.unit = Some(vop.target)
        /\ IF ~va.unit.some \/ va.unit = Some(vop.target)
           THEN outcome.value = va.value
           ELSE MagMul(outcome.value, F64FromU64(FullUnitU64(vop.target)))
                   = MagMul(va.value, F64FromU64(FullUnitU64(va.unit.v)))

\* 42 kB converted to MB came out as 0.042 MB.
C7_Witness ==
    /\ ValueApplied({"convert_to"})
    /\ va = Value(MagInt(42), Some(FullUnit("Kilo", "Byte")))
    /\ vop.target = FullUnit("Mega", "Byte")
    /\ outcome = Value(MagDiv(MagInt(42), MagInt(1000)), Some(FullUnit("Mega", "Byte")))

----------------------------------------------------------------------------
(* C10: the payload of an Integer token *)

\* The value of a digit byte, read off the digit tables.
DigitValue(c) == CHOOSE v \in 0..15 : LowerDigits[v + 1] = c \/ UpperDigits[v + 1] = c

DigitValues(run) == [i \in 1..Len(run) |-> DigitValue(run[i])]

StripLeadingZeros(ds) ==
    IF \E i \in 1..Len(ds) : ds[i] # 0
    THEN SubSeq(ds, CHOOSE i \in 1..Len(ds) : ds[i] # 0 /\ \A j \in 1..(i - 1) : ds[j] = 0,
                Len(ds))
    ELSE <<>>

\* The digits of 2^64 - 1 in each radix, most significant first.
MaxDigitValues(radix) ==
    CASE radix = 2 -> Rep(1, 64)
      [] radix = 8 -> <<1>> \o Rep(7, 21)
      [] radix = 10 -> <<1, 8, 4, 4, 6, 7, 4, 4, 0, 7, 3, 7, 0, 9, 5, 5, 1, 6, 1, 5>>
      [] radix = 16 -> Rep(15, 16)

\* a <= b for digit strings of one length, most significant first.
DigitsLessEq(a, b) ==
    a = b \/ \E i \in 1..Len(a) : a[i] < b[i] /\ \A j \in 1..(i - 1) : a[j] = b[j]

\* Whether the number written by the digits ds (no leading zero) is below 2^64.
BelowTwoTo64(radix, ds) ==
    \/ Len(ds) < Len(MaxDigitValues(radix))
    \/ Len(ds) = Len(MaxDigitValues(radix)) /\ DigitsLessEq(ds, MaxDigitValues(radix))

\* The digits of a u64 in a radix, most significant first, no leading zero
\* (the empty string for zero), by repeated division.
RECURSIVE U64Digits(_, _, _)
U64Digits(v, radix, acc) ==
    IF v = U64Zero THEN acc
    ELSE LET d == U64DivSmall(v, radix)
         IN  IF Len(acc) >= 0 THEN U64Digits(d.q, radix, <<d.rem>> \o acc) ELSE acc

RadixOfPrefix(prefix) ==
    CHOOSE radix \in Radixes : RadixPrefix(radix) = prefix

\* C10: for each radix and each non-empty run of digits valid for it, written
\* with its radix prefix, the first token is Integer whose payload, written
\* back in that radix, is the run without its leading zeros, whenever the run's
\* value is below 2^64; lexing fails with InvalidDigit(Overflow) at the first
\* digit when it is 2^64 or more; and no step of the unchecked accumulation
\* leaves the 64-bit range.
C10_PayloadIsValueOfRun ==
    (mode = "num" /\ phase = "done") =>
        LET radix == RadixOfPrefix(lexemes[1])
            ds == StripLeadingZeros(DigitValues(lexemes[2]))
        IN  /\ ~outcome.wrapped
            /\ IF BelowTwoTo64(radix, ds)
               THEN /\ outcome.item.t = "Ok"
                    /\ outcome.item.tok.kind.k = "Integer"
                    /\ U64Digits(outcome.item.tok.kind.val, radix, <<>>) = ds
                    /\ outcome.item.tok.loc = <<0, Len(lexemes[1]) + Len(lexemes[2])>>
               ELSE outcome.item =
                        LexErr([k |-> "InvalidDigit", why |-> [tag |-> "Overflow"]],
                               Len(lexemes[1]))

\* A literal of sixteen hex digits, the longest run on the unchecked path,
\* lexed to 2^64 - 1.
C10_Witness ==
    /\ mode = "num" /\ phase = "done"
    /\ lexemes[1] = <<"0", "x">> /\ Len(lexemes[2]) = 16
    /\ outcome.item.t = "Ok"
    /\ outcome.item.tok.kind = TKInteger(U64Max)

\* A run whose value is 2^64 or more was rejected.
C10_WitnessOverflow ==
    /\ mode = "num" /\ phase = "done"
    /\ outcome.item.t = "Err"

----------------------------------------------------------------------------
(* C1 - C3, C8, C9: parsing and interpreting a text *)

IntLexemes == {<<"1">>, <<"2">>}

OpLexemes == {<<"+">>, <<"-">>, <<"*">>, <<"/">>}

UnitLexemes == {<<"K", "i", "B">>}

AsLexeme == <<" ", "a", "s", " ">>

\* The token a one-byte lexeme at byte `at` stands for.
IntAt(lexeme, at) ==
    Token(TKInteger(U64FromNat(IF lexeme = <<"1">> THEN 1 ELSE 2)), <<at, at + 1>>)

OpAt(lexeme, at) ==
    Token(TK(CASE lexeme = <<"+">> -> "Plus" [] lexeme = <<"-">> -> "Minus"
               [] lexeme = <<"*">> -> "Star" [] lexeme = <<"/">> -> "Slash"),
          <<at, at + 1>>)

UnitNamed(lexeme) == CASE lexeme = <<"K", "i", "B">> -> FullUnit("Kibi", "Byte")

UnitAt(lexeme, at) == Token(TKUnit(UnitNamed(lexeme)), <<at, at + Len(lexeme)>>)

LitAt(lexeme, at) == Literal(IntAt(lexeme, at), None)

IntValue(lexeme) == Value(MagInt(IF lexeme = <<"1">> THEN 1 ELSE 2), None)

\* The text is exactly these lexemes and interpret is past the parser.
Parsing(shape) == mode = "expr" /\ phase # "ready" /\ lexemes = shape

Interpreted(shape) == mode = "expr" /\ phase = "done" /\ lexemes = shape

\* C1: interpret returns Ok with a Value or Err with a SyntaxError for every
\* text, and never panics (Parser::bump never meets an absent item or a
\* lexical error).
C1_InterpretNeverPanics ==
    (mode = "expr" /\ phase = "done") => outcome.t \in {"Ok", "Err"}

\* C2: `N as U` followed by the end of the text parses to
\* TypeCast{left: Literal N, unit: U} and interprets to magnitude N, unit U.
C2_CastOfLiteral ==
    \A n \in IntLexemes, u \in UnitLexemes :
        Interpreted(<<n, AsLexeme, u>>) =>
            /\ ast = Some(TypeCastExpr(LitAt(n, 0), UnitAt(u, 5)))
            /\ outcome = EvalOk(Value(IntValue(n).value, Some(UnitNamed(u))))

\* The value of a op b for two dimensionless integers.
Combined(op, a, b) ==
    CASE op = <<"+">> -> ValueAdd(IntValue(a), IntValue(b))
      [] op = <<"-">> -> ValueSub(IntValue(a), IntValue(b))
      [] op = <<"*">> -> TryMul(IntValue(a), IntValue(b)).v
      [] op = <<"/">> -> TryDiv(IntValue(a), IntValue(b)).v

\* C3: `(e)` followed by the end of the text parses to Grouping(e), and in
\* `(a) op b` the operator after `)` is still the lookahead: the tree is
\* op(Grouping(a), b) and its value is that of a op b.
C3_GroupingStopsAtParen ==
    /\ \A a \in IntLexemes :
          Interpreted(<<(<<"(">>), a, (<<")">>)>>) =>
              /\ ast = Some(Grouping(LitAt(a, 1)))
              /\ outcome = EvalOk(IntValue(a))
    /\ \A a \in IntLexemes, b \in IntLexemes, op \in OpLexemes :
          Interpreted(<<(<<"(">>), a, (<<")">>), op, b>>) =>
              /\ ast = Some(ArithmeticOrLogical(Grouping(LitAt(a, 1)), OpAt(op, 3), LitAt(b, 4)))
              /\ outcome = EvalOk(Combined(op, a, b))

Binary(left, op, at, right) == ArithmeticOrLogical(left, OpAt(op, at), right)

MulLevel == {<<"*">>, <<"/">>}

\* C8: in the tree of `a op1 b op2 c`, * and / bind tighter than + and -,
\* and operators of one level associate to the left: the tree is
\* op1(a, op2(b, c)) when op1 is + or - and op2 is * or /, and
\* op2(op1(a, b), c) otherwise.
C8_Tree(a, op1, b, op2, c) ==
    IF op1 \notin MulLevel /\ op2 \in MulLevel
    THEN Binary(LitAt(a, 0), op1, 1, Binary(LitAt(b, 2), op2, 3, LitAt(c, 4)))
    ELSE Binary(Binary(LitAt(a, 0), op1, 1, LitAt(b, 2)), op2, 3, LitAt(c, 4))

C8_PrecedenceAndLeftAssoc ==
    ( /\ mode = "expr" /\ phase # "ready" /\ Len(lexemes) = 5
      /\ \A i \in {1, 3, 5} : lexemes[i] \in IntLexemes
      /\ \A i \in {2, 4} : lexemes[i] \in OpLexemes )
    => ast = Some(C8_Tree(lexemes[1], lexemes[2], lexemes[3], lexemes[4], lexemes[5]))

\* `1+2*1` was parsed to +(1, *(2, 1)).
C8_Witness ==
    /\ mode = "expr" /\ phase = "parsed" /\ input = <<"1", "+", "2", "*", "1">>
    /\ ast.v.operator.kind = TK("Plus")
    /\ ast.v.left = LitAt(<<"1">>, 0)
    /\ ast.v.right.operator.kind = TK("Star")

\* `2-1-1` was parsed to -(-(2, 1), 1).
C8_WitnessLeftAssoc ==
    /\ mode = "expr" /\ phase = "parsed" /\ input = <<"2", "-", "1", "-", "1">>
    /\ ast.v.left.e = "ArithmeticOrLogical"
    /\ ast.v.right = LitAt(<<"1">>, 4)

Minus == <<"-">>

RECURSIVE Negated(_, _, _)
\* k nested Unary nodes over `inner`, the outermost minus at byte `at`.
Negated(k, at, inner) ==
    IF k = 0 THEN inner
    ELSE UnaryExpr(OpAt(Minus, at), Negated(k - 1, at + 1, inner))

\* The longest run of minus signs before a primary.
MinusRuns == 1..(MaxLexemes - 2)

\* A run of k minus signs before `N` or `N U` gives k nested Unary nodes,
\* and the value is N negated k times with the unit of the literal.
C9_MinusRunsNest ==
    \A k \in MinusRuns, n \in IntLexemes :
        /\ Interpreted([i \in 1..(k + 1) |-> IF i <= k THEN Minus ELSE n]) =>
              /\ ast = Some(Negated(k, 0, LitAt(n, k)))
              /\ outcome = EvalOk(IF k % 2 = 0 THEN IntValue(n) ELSE ValueNeg(IntValue(n)))
        /\ \A u \in UnitLexemes :
              Interpreted([i \in 1..(k + 2) |-> IF i <= k THEN Minus ELSE IF i = k + 1 THEN n ELSE u]) =>
                  /\ ast = Some(Negated(k, 0, Literal(IntAt(n, k), Some(UnitAt(u, k + 1)))))
                  /\ outcome.t = "Ok"
                  /\ outcome.v.unit = Some(UnitNamed(u))
                  /\ outcome.v.value = IF k % 2 = 0 THEN IntValue(n).value
                                       ELSE ValueNeg(IntValue(n)).value

\* `-a op b` is op(Unary(a), b).
C9_MinusBindsTighterThanBinary ==
    \A a \in IntLexemes, b \in IntLexemes, op \in OpLexemes :
        Parsing(<<Minus, a, op, b>>) =>
            ast = Some(Binary(Negated(1, 0, LitAt(a, 1)), op, 2, LitAt(b, 3)))

\* `-a as U` is TypeCast(Unary(a), U).
C9_MinusBindsTighterThanAs ==
    \A a \in IntLexemes, u \in UnitLexemes :
        Interpreted(<<Minus, a, AsLexeme, u>>) =>
            ast = Some(TypeCastExpr(Negated(1, 0, LitAt(a, 1)), UnitAt(u, 6)))

\* C9: unary minus nests to any depth and binds tighter than `as` and every
\* binary operator: k minus signs before a primary give k nested Unary nodes,
\* the value is negated k times with its unit kept, and `-a as U` parses as
\* TypeCast(Unary(a), U).
C9_UnaryMinus ==
    /\ C9_MinusRunsNest
    /\ C9_MinusBindsTighterThanBinary
    /\ C9_MinusBindsTighterThanAs

----------------------------------------------------------------------------
(* C11 - C13, C19, C20: the lexer, item by item *)

\* The byte at a 0-based offset of the text, "" past its end.
ByteAt(k) == IF k < Len(input) THEN input[k + 1] ELSE ""

\* The first offset from k on that holds no whitespace (the text's length
\* when there is none).
SkipWhitespace(k) ==
    CHOOSE j \in k..Len(input) :
        /\ ByteAt(j) # " "
        /\ \A h \in k..(j - 1) : ByteAt(h) = " "

\* Where the scan of the i-th item started: after the token before it and
\* the whitespace that follows.
ScanStart(i) == SkipWhitespace(IF i = 1 THEN 0 ELSE items[i - 1].tok.loc[2])

\* The items that are the first to follow the tokens before them.
Scans == {i \in DOMAIN items : i = 1 \/ items[i - 1].t = "Ok"}

DigitsOfLetter(letter) ==
    CASE letter = "b" -> {"0", "1"}
      [] letter = "o" -> {"0", "1", "2", "3", "4", "5", "6", "7"}
      [] letter = "x" -> {"0", "1", "2", "3", "4", "5", "6", "7", "8", "9",
                          "a", "b", "c", "d", "e", "f", "A", "B", "C", "D", "E", "F"}

\* The scan of the i-th item starts at a radix prefix with no digit of its
\* radix behind it.
BarePrefixAt(i) ==
    /\ ByteAt(ScanStart(i)) = "0"
    /\ ByteAt(ScanStart(i) + 1) \in {"b", "o", "x"}
    /\ ByteAt(ScanStart(i) + 2) \notin DigitsOfLetter(ByteAt(ScanStart(i) + 1))

\* C11: a radix prefix 0b, 0o or 0x followed by no valid digit of its radix
\* (the end of the text or any other byte) makes the lexer fail with
\* InvalidDigit(Empty) located two bytes after the start of the token.
C11_BarePrefixIsEmpty ==
    mode = "lex" =>
        \A i \in Scans :
            BarePrefixAt(i) =>
                items[i] = LexErr([k |-> "InvalidDigit", why |-> [tag |-> "Empty"]],
                                  ScanStart(i) + 2)

\* ` 0x` was lexed: InvalidDigit(Empty) at offset 3.
C11_Witness ==
    /\ mode = "lex" /\ input = <<" ", "0", "x">> /\ Len(items) >= 1
    /\ items[1] = LexErr([k |-> "InvalidDigit", why |-> [tag |-> "Empty"]], 3)

C12_WitnessAfterDigit ==
    /\ mode = "lex" /\ input = <<"0", "a">> /\ Len(items) >= 2
    /\ items[1].t = "Ok"
    /\ items[2] = LexErr([k |-> "UnexpectedCharacter"], 1)

\* The prefix a unit spelling names: by its first letter, and by whether an
\* i or I follows.
PrefixNamed(spelling) ==
    LET binary == Len(spelling) = 3
        letter == spelling[1]
    IN  CASE Len(spelling) = 1 -> "None"
          [] Len(spelling) > 1 /\ letter \in {"k", "K"} -> IF binary THEN "Kibi" ELSE "Kilo"
          [] Len(spelling) > 1 /\ letter \in {"m", "M"} -> IF binary THEN "Mebi" ELSE "Mega"
          [] Len(spelling) > 1 /\ letter \in {"g", "G"} -> IF binary THEN "Gibi" ELSE "Giga"
          [] Len(spelling) > 1 /\ letter \in {"t", "T"} -> IF binary THEN "Tebi" ELSE "Tera"
          [] Len(spelling) > 1 /\ letter \in {"p", "P"} -> IF binary THEN "Pebi" ELSE "Peta"
          [] Len(spelling) > 1 /\ letter \in {"e", "E"} -> IF binary THEN "Exbi" ELSE "Exa"

\* 1000^n in decimal digits, 1024^n in binary digits, most significant first.
PowerDigits(n, zeros) == <<1>> \o [i \in 1..(n * zeros) |-> 0]

\* The multiplier of the prefix is 1000^n, or 1024^n, for the n-th letter.
MultiplierIsPower(prefix) ==
    /\ prefix = "None" => PrefixU64(prefix) = U64FromNat(1)
    /\ \A n \in 1..6 :
          /\ prefix = <<"Kilo", "Mega", "Giga", "Tera", "Peta", "Exa">>[n] =>
                U64Digits(PrefixU64(prefix), 10, <<>>) = PowerDigits(n, 3)
          /\ prefix = <<"Kibi", "Mebi", "Gibi", "Tebi", "Pebi", "Exbi">>[n] =>
                U64Digits(PrefixU64(prefix), 2, <<>>) = PowerDigits(n, 10)

\* C13: a prefix letter of k, m, g, t, p, e in either case, optionally
\* followed by i or I, followed by b or B, is lexed to exactly one Unit token:
\* its prefix is Kilo .. Exa (1000^1 .. 1000^6) or, with i / I, Kibi .. Exbi
\* (1024^1 .. 1024^6), its unit is Bit for b and Byte for B; t / T is Tera or
\* Tebi, and a bare b / B has the prefix None.
C13_UnitSpellings ==
    (mode = "lex" /\ Len(lexemes) = 3 /\ lexemes[2] \in UnitSpellings /\ Len(items) >= 2) =>
        LET spelling == lexemes[2]
            letter == spelling[Len(spelling)]
        IN  /\ items[1] = LexOk(Token(TKUnit(FullUnit(PrefixNamed(spelling),
                                                      IF letter = "b" THEN "Bit" ELSE "Byte")),
                                      <<Len(lexemes[1]), Len(lexemes[1]) + Len(spelling)>>))
            /\ MultiplierIsPower(items[1].tok.kind.unit.prefix)
            /\ items[2].t = "Ok" /\ items[2].tok.kind.k # "Unit"

\* ` tIb+` was lexed: one Unit token Tebi-Bit over bytes 1..4, then Plus.
C13_Witness ==
    /\ mode = "lex" /\ input = <<" ", "t", "I", "b", "+">> /\ Len(items) >= 2
    /\ items[1] = LexOk(Token(TKUnit(FullUnit("Tebi", "Bit")), <<1, 4>>))
    /\ items[2] = LexOk(Token(TK("Plus"), <<4, 5>>))

IsEof(item) == item.t = "Ok" /\ item.tok.kind = TK("Eof")

\* C19: Lexer::next yields Eof exactly once, as the last item, and every
\* later call returns None; nothing but tokens comes before Eof, None comes
\* only after it, and a text that lexes without error does get its Eof.
C19_EofOnceThenNone ==
    mode = "lex" =>
        /\ \A i \in DOMAIN items :
              /\ IsEof(items[i]) =>
                    /\ \A j \in 1..(i - 1) : items[j].t = "Ok" /\ ~IsEof(items[j])
                    /\ \A j \in (i + 1)..Len(items) : items[j] = NoItem
              /\ items[i] = NoItem => \E j \in 1..(i - 1) : IsEof(items[j])
        /\ (phase = "done" /\ \A i \in DOMAIN items : items[i].t # "Err") =>
              /\ Cardinality({i \in DOMAIN items : IsEof(items[i])}) = 1
              /\ curLexer.v.input = None

\* `1 +` was lexed to its end and pulled twice more: 1, +, Eof, None, None.
C19_Witness ==
    /\ mode = "lex" /\ phase = "done" /\ input = <<"1", " ", "+">>
    /\ Len(items) = 5
    /\ IsEof(items[3])
    /\ items[4] = NoItem /\ items[5] = NoItem

DigitsOfRadix(radix) ==
    CASE radix = 2 -> DigitsOfLetter("b")
      [] radix = 8 -> DigitsOfLetter("o")
      [] radix = 16 -> DigitsOfLetter("x")
      [] radix = 10 -> {"0", "1", "2", "3", "4", "5", "6", "7", "8", "9"}

\* The bytes seg, followed by the byte after, are a whole literal of the
\* radix (its prefix included) and val is the number they write.
SpellsInteger(val, radix, seg, after) ==
    LET run == SubSeq(seg, Len(RadixPrefix(radix)) + 1, Len(seg))
    IN  /\ Len(seg) > Len(RadixPrefix(radix))
        /\ SubSeq(seg, 1, Len(RadixPrefix(radix))) = RadixPrefix(radix)
        /\ \A i \in DOMAIN run : run[i] \in DigitsOfRadix(radix)
        /\ after \notin DigitsOfRadix(radix)
        /\ U64Digits(val, radix, <<>>) = StripLeadingZeros(DigitValues(run))

\* The bytes seg are the lexeme of a token of this kind.
Spells(kind, seg, after) ==
    CASE kind.k = "Minus" -> seg = <<"-">>
      [] kind.k = "Plus" -> seg = <<"+">>
      [] kind.k = "Star" -> seg = <<"*">>
      [] kind.k = "Slash" -> seg = <<"/">>
      [] kind.k = "LeftParen" -> seg = <<"(">>
      [] kind.k = "RightParen" -> seg = <<")">>
      [] kind.k = "As" -> seg = <<"a", "s">>
      [] kind.k = "Eof" -> seg = <<>>
      [] kind.k = "Unit" ->
            /\ seg \in UnitSpellings
            /\ kind.unit = FullUnit(PrefixNamed(seg),
                                    IF seg[Len(seg)] = "b" THEN "Bit" ELSE "Byte")
      [] kind.k = "Integer" ->
            \E radix \in Radixes : SpellsInteger(kind.val, radix, seg, after)

\* C20: the token spans are half-open byte ranges in strictly increasing
\* order that do not overlap; each covers exactly the bytes of its lexeme
\* (the radix prefix included); the bytes between two spans are whitespace;
\* Eof has the empty span at the length of the text; and in a text lexed to
\* its end every byte outside the spans is whitespace.
C20_SpansCoverLexemes ==
    mode = "lex" =>
        /\ \A i \in DOMAIN items :
              items[i].t = "Ok" =>
                  LET loc == items[i].tok.loc
                      kind == items[i].tok.kind
                  IN  /\ loc[1] = ScanStart(i)
                      /\ loc[2] <= Len(input)
                      /\ kind.k # "Eof" => loc[1] < loc[2]
                      /\ kind.k = "Eof" => loc = <<Len(input), Len(input)>>
                      /\ Spells(kind, SubSeq(input, loc[1] + 1, loc[2]), ByteAt(loc[2]))
        /\ (\E i \in DOMAIN items : IsEof(items[i])) =>
              \A k \in 0..(Len(input) - 1) :
                  \/ ByteAt(k) = " "
                  \/ \E i \in DOMAIN items :
                        /\ items[i].t = "Ok"
                        /\ items[i].tok.loc[1] <= k /\ k < items[i].tok.loc[2]

\* `0x1 b` was lexed: Integer(1) over 0..3, Unit(Bit) over 4..5, Eof at 5..5.
C20_Witness ==
    /\ mode = "lex" /\ input = <<"0", "x", "1", " ", "b">> /\ Len(items) >= 3
    /\ items[1] = LexOk(Token(TKInteger(U64FromNat(1)), <<0, 3>>))
    /\ items[2] = LexOk(Token(TKUnit(FullUnit("None", "Bit")), <<4, 5>>))
    /\ items[3] = LexOk(Token(TK("Eof"), <<5, 5>>))

\* ------------------------------------------------------------------------
\* C14 - C16: the errors of Parser::parse and interpret.

AsAt(at) == Token(TK("As"), <<at, at + 2>>)

\* interpret's result when parse fails with ExpectedEof at this token.
ExpectedEofAt(token) ==
    EvalErr(FromSyntaxErrorKind([k |-> "Parse", kind |-> PEK("ExpectedEof"), token |-> token]))

\* C14: a fully reduced expression followed by a token other than Eof makes
\* parse fail with ExpectedEof at the first token after the expression: the
\* second `as` of `n as U as U`, the second integer of `(a)b`, the second
\* unit of `n U U`.
C14_ExpectedEofAtFirstTokenAfter ==
    /\ \A n \in IntLexemes, u \in UnitLexemes, w \in UnitLexemes :
          Interpreted(<<n, AsLexeme, u, AsLexeme, w>>) =>
              outcome = ExpectedEofAt(AsAt(6 + Len(u)))
    /\ \A a \in IntLexemes, b \in IntLexemes :
          Interpreted(<<(<<"(">>), a, (<<")">>), b>>) =>
              outcome = ExpectedEofAt(IntAt(b, 3))
    /\ \A n \in IntLexemes, u \in UnitLexemes, w \in UnitLexemes :
          Interpreted(<<n, u, w>>) =>
              outcome = ExpectedEofAt(UnitAt(w, 1 + Len(u)))

\* The tokens the lexer yields before its first lexical error or None.
RECURSIVE TokensFrom(_, _)
TokensFrom(r, acc) ==
    IF r.item.t # "Ok" THEN acc
    ELSE TokensFrom(LexerNext(r.lexer), Append(acc, r.item.tok))

TokensOf(text) == TokensFrom(LexerNext(LexerNew(text)), <<>>)

\* Where the grammar
\*    expression = term, term = factor (("+" | "-") factor)*,
\*    factor = type_cast (("*" | "/") type_cast)*, type_cast = unary ("as" Unit)?,
\*    unary = "-" unary | primary, primary = Integer Unit? | "(" expression ")"
\* first rejects a token, reading toks from index k: the index of that token
\* and the kind of error that names what was required there.  `at` is 0 when
\* the tokens are accepted or end (at a lexical error) before any rejection.
\* st is what was read last: "operand" when an operand must follow, "as"
\* after `as`, "integer" after a bare integer, "primary" after a literal
\* with unit or a `)`, "cast" after the unit of a cast; depth counts the
\* open parentheses.
RECURSIVE Rejected(_, _, _, _)
Rejected(toks, k, st, depth) ==
    IF k > Len(toks) THEN [at |-> 0]
    ELSE LET kd == toks[k].kind.k
         IN  CASE st = "operand" ->
                    IF kd = "Minus" THEN Rejected(toks, k + 1, "operand", depth)
                    ELSE IF kd = "Integer" THEN Rejected(toks, k + 1, "integer", depth)
                    ELSE IF kd = "LeftParen" THEN Rejected(toks, k + 1, "operand", depth + 1)
                    ELSE [at |-> k, kind |-> PEK("ExpectedExpression")]
               [] st = "as" ->
                    IF kd = "Unit" THEN Rejected(toks, k + 1, "cast", depth)
                    ELSE [at |-> k, kind |-> PEK("ExpectedUnit")]
               [] OTHER ->
                    IF kd = "Unit" /\ st = "integer" THEN Rejected(toks, k + 1, "primary", depth)
                    ELSE IF kd = "As" /\ st # "cast" THEN Rejected(toks, k + 1, "as", depth)
                    ELSE IF kd \in {"Plus", "Minus", "Star", "Slash"}
                         THEN Rejected(toks, k + 1, "operand", depth)
                    ELSE IF kd = "RightParen" /\ depth > 0
                         THEN Rejected(toks, k + 1, "primary", depth - 1)
                    ELSE IF kd = "Eof" /\ depth = 0 THEN [at |-> 0]
                    ELSE [at |-> k,
                          kind |-> IF depth > 0 THEN UnexpectedToken(")") ELSE PEK("ExpectedEof")]

\* The syntactic error is the one of the first token the grammar rejects.
SyntacticErrorAtRejected(err, toks, rej) ==
    /\ rej.at # 0
    /\ err.kind.kind = rej.kind
    /\ err.kind.token = toks[rej.at]
    /\ err.loc = toks[rej.at].loc

\* The value error carries a `*` or `/` token of the text, the operator its
\* message is about.
ValueErrorAtOperator(err, toks) ==
    /\ \E k \in DOMAIN toks : toks[k] = err.kind.token
    /\ err.loc = err.kind.token.loc
    /\ \/ err.kind.token.kind.k = "Star"
          /\ err.kind.kind = "Cannot multiply two values with units"
       \/ err.kind.token.kind.k = "Slash"
          /\ err.kind.kind = "Cannot divide by a value with a unit"

\* C15: every non-lexical error interpret returns carries the span of a
\* token of the text: a syntactic error that of the token found where
\* another was required, a multiplication or division error that of the `*`
\* or `/` of the failing node (4..5 in `nU*mU`, 1..2 in `n/mU`).
C15_ErrorCarriesTokenSpan ==
    /\ (mode = "expr" /\ phase = "done" /\ outcome.t = "Err") =>
          /\ outcome.err.kind.k = "Parse" =>
                SyntacticErrorAtRejected(outcome.err, TokensOf(input),
                                         Rejected(TokensOf(input), 1, "operand", 0))
          /\ outcome.err.kind.k = "Value" =>
                ValueErrorAtOperator(outcome.err, TokensOf(input))
    /\ \A n \in IntLexemes, m \in IntLexemes, u \in UnitLexemes, w \in UnitLexemes :
          /\ Interpreted(<<n, u, (<<"*">>), m, w>>) =>
                (outcome.t = "Err" /\ outcome.err.loc = <<1 + Len(u), 2 + Len(u)>>)
          /\ Interpreted(<<n, (<<"/">>), m, w>>) =>
                (outcome.t = "Err" /\ outcome.err.loc = <<1, 2>>)

\* The first item of the text that is not a token, if the lexer is pulled
\* that far.
RECURSIVE FirstFailure(_)
FirstFailure(r) == IF r.item.t # "Ok" THEN r.item ELSE FirstFailure(LexerNext(r.lexer))

\* interpret's result when parse returns this lexical error.
LexErrorReturned(item) == EvalErr(FromSyntaxErrorKind([k |-> "Lex", e |-> item.err]))

\* C16: a lexical error at an item the parser reaches is what parse returns,
\* as SyntaxErrorKind::Lex: whenever the tokens before the failing item are
\* not rejected by the grammar the outcome is that error, and so it is when
\* the failing item directly follows the unit of a cast (`n as Ux`) or a
\* closing parenthesis (`(n)x`).
C16_LexErrorPropagates ==
    /\ (mode = "expr" /\ phase = "done") =>
          LET first == FirstFailure(LexerNext(LexerNew(input)))
          IN  (first.t = "Err" /\ Rejected(TokensOf(input), 1, "operand", 0).at = 0) =>
                  outcome = LexErrorReturned(first)
    /\ \A n \in IntLexemes, u \in UnitLexemes :
          Interpreted(<<n, AsLexeme, u, (<<"x">>)>>) =>
              outcome = LexErrorReturned(LexErr([k |-> "UnexpectedCharacter"], 5 + Len(u)))
    /\ \A n \in IntLexemes :
          Interpreted(<<(<<"(">>), n, (<<")">>), (<<"x">>)>>) =>
              outcome = LexErrorReturned(LexErr([k |-> "UnexpectedCharacter"], 3))

\* ------------------------------------------------------------------------
\* C17, C18: rendering and conversion round trips.

\* The prefix letters the rendering is to use.
PrefixLetters17(prefix) ==
    CASE prefix = "None" -> <<>>
      [] prefix = "Kilo" -> <<"k">>
      [] prefix = "Mega" -> <<"M">>
      [] prefix = "Giga" -> <<"G">>
      [] prefix = "Tera" -> <<"T">>
      [] prefix = "Peta" -> <<"P">>
      [] prefix = "Exa" -> <<"E">>
      [] prefix = "Kibi" -> <<"k", "i">>
      [] prefix = "Mebi" -> <<"M", "i">>
      [] prefix = "Gibi" -> <<"G", "i">>
      [] prefix = "Tebi" -> <<"T", "i">>
      [] prefix = "Pebi" -> <<"P", "i">>
      [] prefix = "Exbi" -> <<"E", "i">>

\* C17: a value with a unit renders as its magnitude, the letters of the
\* prefix (k, M, G, T, P, E, ki, Mi, Gi, Ti, Pi, Ei, none for None) and the
\* letter of the unit (b or B): 42 Kilo-Byte renders as `42kB`.
C17_RenderedUnits ==
    /\ ValueApplied({"display"}) /\ va.unit.some =>
          outcome = DisplayF64(va.value) \o PrefixLetters17(va.unit.v.prefix)
                       \o (IF va.unit.v.unit = "Bit" THEN <<"b">> ELSE <<"B">>)
    /\ ValueApplied({"display"}) /\ va = Value(MagInt(42), Some(FullUnit("Kilo", "Byte"))) =>
          outcome = <<"4", "2", "k", "B">>

\* C18: for a value v carrying unit A and any unit B,
\* v.convert_to(B).convert_to(A) carries unit A and has v's magnitude
\* (magnitudes are exact rationals here).
C18_ConvertRoundTrip ==
    (mode = "value" /\ phase = "back") =>
        /\ outcome.unit = va.unit
        /\ outcome.value = va.value

\* 42 kB went to MB and came back as 42 kB.
C18_Witness ==
    /\ mode = "value" /\ phase = "back"
    /\ va = Value(MagInt(42), Some(FullUnit("Kilo", "Byte")))
    /\ vop.target = FullUnit("Mega", "Byte")
    /\ outcome = Value(MagInt(42), Some(FullUnit("Kilo", "Byte")))

\* -1 Eib went to kB, a unit with no common power, and came back as -1 Eib.
C18_WitnessMixedPrefixes ==
    /\ mode = "value" /\ phase = "back"
    /\ va = Value(MagInt(-1), Some(FullUnit("Exbi", "Bit")))
    /\ vop.target = FullUnit("Kilo", "Byte")
    /\ outcome = va

\* ------------------------------------------------------------------------
\* C21, C22, C25, C26: more on the lexer.

\* The length of the longest run of digits of this radix letter that
\* starts at offset k.
DigitRunFrom(k, letter) ==
    CHOOSE n \in 0..Len(input) :
        /\ \A j \in 0..(n - 1) : ByteAt(k + j) \in DigitsOfLetter(letter)
        /\ ByteAt(k + n) \notin DigitsOfLetter(letter)

\* The scan of the i-th item starts at a 0b or 0o literal whose non-empty
\* run of digits is directly followed by a decimal digit the radix lacks.
ForeignDigitAt(i) ==
    /\ ByteAt(ScanStart(i)) = "0"
    /\ ByteAt(ScanStart(i) + 1) \in {"b", "o"}
    /\ DigitRunFrom(ScanStart(i) + 2, ByteAt(ScanStart(i) + 1)) > 0
    /\ ByteAt(ScanStart(i) + 2 + DigitRunFrom(ScanStart(i) + 2, ByteAt(ScanStart(i) + 1)))
          \in SeqRange(DecDigits)

\* C21: when the non-empty digit run of a 0b or 0o literal is directly
\* followed by a decimal digit that the radix lacks (`0b12`, `0o78`), the
\* lexer fails with InvalidDigit(InvalidDigit(index)) and emits no Integer
\* token for the run.
C21_ForeignDigitIsInvalidDigit ==
    mode = "lex" =>
        \A i \in Scans :
            ForeignDigitAt(i) =>
                /\ items[i].t = "Err"
                /\ items[i].err.kind.k = "InvalidDigit"
                /\ items[i].err.kind.why.tag = "InvalidDigit"

\* The tokens a tree holds and the parentheses around its groupings: the
\* tokens parse took from the lexer to build it, at least.
RECURSIVE TokensIn(_)
TokensIn(expr) ==
    CASE expr.e = "Literal" -> IF expr.unit.some THEN 2 ELSE 1
      [] expr.e = "Grouping" -> 2 + TokensIn(expr.inner)
      [] expr.e = "ArithmeticOrLogical" -> TokensIn(expr.left) + 1 + TokensIn(expr.right)
      [] expr.e = "TypeCast" -> TokensIn(expr.left) + 2
      [] expr.e = "Unary" -> 1 + TokensIn(expr.right)

\* The number of tokens other than Eof that the pulls from lx on return (r
\* is what Lexer::next returns on lx) before Eof or an error, when each of
\* these pulls moves the position forward by at least one byte, not past the
\* end of the text, and shortens what is left of the text; -1 when one does
\* not.
RECURSIVE ProperTokensPulled(_, _, _)
ProperTokensPulled(lx, r, n) ==
    IF r.item.t # "Ok" \/ IsEof(r.item) THEN n
    ELSE IF /\ r.lexer.current >= lx.current + 1
            /\ r.lexer.current <= Len(input)
            /\ Len(r.lexer.input.v) < Len(lx.input.v)
         THEN ProperTokensPulled(r.lexer, LexerNext(r.lexer), n + 1)
         ELSE -1

\* C22: a Lexer::next that returns a token other than Eof moves the lexer's
\* position forward by at least one byte, so a text of n bytes yields at most
\* n such tokens before Eof or an error; and parse takes each token once:
\* the tree it returns holds no more tokens than the lexer yields.
C22_BoundedByInputLength ==
    (mode = "expr" /\ phase = "done") =>
        LET pulled == ProperTokensPulled(LexerNew(input), LexerNext(LexerNew(input)), 0)
        IN  /\ 0 <= pulled /\ pulled <= Len(input)
            /\ ast.some => TokensIn(ast.v) <= pulled

\* `1+1*1`, five bytes and five tokens, was parsed to a tree of five tokens
\* and evaluated.
C22_Witness ==
    /\ mode = "expr" /\ phase = "done" /\ input = <<"1", "+", "1", "*", "1">>
    /\ ProperTokensPulled(LexerNew(input), LexerNext(LexerNew(input)), 0) = 5
    /\ ast.some /\ TokensIn(ast.v) = 5 /\ outcome.t = "Ok"

\* ------------------------------------------------------------------------
\* C23, C27: the trees parse returns and the order of evaluate.

RECURSIVE WellFormed(_)
WellFormed(expr) ==
    CASE expr.e = "ArithmeticOrLogical" ->
            /\ expr.operator.kind.k \in {"Plus", "Minus", "Star", "Slash"}
            /\ WellFormed(expr.left) /\ WellFormed(expr.right)
      [] expr.e = "Unary" -> expr.operator.kind.k = "Minus" /\ WellFormed(expr.right)
      [] expr.e = "TypeCast" -> expr.unit.kind.k = "Unit" /\ WellFormed(expr.left)
      [] expr.e = "Grouping" -> WellFormed(expr.inner)
      [] expr.e = "Literal" ->
            /\ expr.kind.kind.k = "Integer"
            /\ expr.unit.some => expr.unit.v.kind.k = "Unit"
      [] OTHER -> FALSE

\* C23: every tree parse returns is well formed (binary operators are Plus,
\* Minus, Star or Slash, unary operators Minus, cast units Unit tokens,
\* literal kinds Integer with a Unit token or none), and evaluate reaches no
\* unreachable!() arm.
C23_TreesWellFormed ==
    (mode = "expr" /\ ast.some) =>
        /\ WellFormed(ast.v)
        /\ phase = "done" => outcome # Unreachable

\* `-1KiB*2` gave a tree with a unary, a literal with unit and a binary node.
C23_Witness ==
    /\ Interpreted(<<(<<"-">>), (<<"1">>), (<<"K", "i", "B">>), (<<"*">>), (<<"2">>)>>)
    /\ ast = Some(Binary(UnaryExpr(OpAt(<<"-">>, 0),
                                   Literal(IntAt(<<"1">>, 1), Some(UnitAt(<<"K", "i", "B">>, 2)))),
                         <<"*">>, 5, LitAt(<<"2">>, 6)))
    /\ outcome.t = "Ok"

\* `1 as KiB2` gave a tree with a cast whose unit is the Unit token.
C23_WitnessCast ==
    /\ Interpreted(<<(<<"1">>), AsLexeme, (<<"K", "i", "B">>), (<<"2">>)>>)
    /\ ast.some /\ ast.v.e = "TypeCast" /\ ast.v.unit.kind.k = "Unit"
    /\ outcome.t = "Ok"

\* ------------------------------------------------------------------------
\* C24: the order of FullUnit.

\* Ord::cmp of two FullUnits returns Equal.
CmpEqual(left, right) ==
    /\ ~U64Less(FullUnitU64(left), FullUnitU64(right))
    /\ ~U64Less(FullUnitU64(right), FullUnitU64(left))

\* C24: two FullUnits have the same total multiplier only when they are the
\* same (prefix, unit) pair, so Ord::cmp is Equal exactly for equal units and
\* min(left, right) does not depend on the order of its arguments; the unit
\* of a sum or difference is the same whichever operand comes first.
C24_MultipliersDistinct ==
    (mode = "value" /\ phase = "done" /\ vb # None /\ va.unit.some /\ vb.unit.some) =>
        /\ FullUnitU64(va.unit.v) = FullUnitU64(vb.unit.v) <=> va.unit.v = vb.unit.v
        /\ CmpEqual(va.unit.v, vb.unit.v) <=> va.unit.v = vb.unit.v
        /\ FullUnitMin(va.unit.v, vb.unit.v) = FullUnitMin(vb.unit.v, va.unit.v)
        /\ vop.op = "add" => outcome.unit = ValueAdd(vb, va).unit
        /\ vop.op = "sub" => outcome.unit = ValueSub(vb, va).unit

\* 1 kB + 2 kb, two units of one prefix, came out in kb.
C24_Witness ==
    /\ ValueApplied({"add"})
    /\ va = Value(MagInt(1), Some(FullUnit("Kilo", "Byte")))
    /\ vb = Value(MagInt(2), Some(FullUnit("Kilo", "Bit")))
    /\ outcome = Value(MagInt(10), Some(FullUnit("Kilo", "Bit")))

\* ------------------------------------------------------------------------
\* C25: error spans and the text.

\* C25: when interpret fails on a text of n bytes, the span [s, e) of the
\* error lies inside the text, s <= e <= n, lexical errors at the end of the
\* text included.
C25_ErrorSpanInsideText ==
    (mode = "expr" /\ phase = "done" /\ outcome.t = "Err") =>
        /\ 0 <= outcome.err.loc[1]
        /\ outcome.err.loc[1] <= outcome.err.loc[2]
        /\ outcome.err.loc[2] <= Len(input)

\* ------------------------------------------------------------------------
\* C26: a decimal literal directly followed by a unit.

\* The length of the run of decimal digits the text starts with.
LeadingDecimals ==
    CHOOSE n \in 0..Len(input) :
        /\ \A j \in 1..n : input[j] \in SeqRange(DecDigits)
        /\ n < Len(input) => input[n + 1] \notin SeqRange(DecDigits)

\* The text is a decimal literal directly followed by a unit spelling.
DecimalThenUnit ==
    /\ LeadingDecimals > 0
    /\ SubSeq(input, LeadingDecimals + 1, Len(input)) \in UnitSpellings

\* The kinds of the tokens pulled so far are those of Integer(d), Unit(u),
\* Eof, in this order.
LexedAsLiteralAndUnit(d, u) ==
    /\ Len(items) >= 1 =>
          /\ items[1].t = "Ok" /\ items[1].tok.kind.k = "Integer"
          /\ U64Digits(items[1].tok.kind.val, 10, <<>>) = StripLeadingZeros(DigitValues(d))
    /\ Len(items) >= 2 =>
          items[2] = LexOk(Token(TKUnit(FullUnit(PrefixNamed(u),
                                                 IF u[Len(u)] = "b" THEN "Bit" ELSE "Byte")),
                                 <<Len(d), Len(d) + Len(u)>>))
    /\ Len(items) >= 3 => IsEof(items[3])

Violates(expr) ==
    /\ Evaluate(expr.left).t = "Ok" /\ Evaluate(expr.right).t = "Ok"
    /\ \/ /\ expr.operator.kind.k = "Star"
          /\ Evaluate(expr.left).v.unit.some /\ Evaluate(expr.right).v.unit.some
       \/ /\ expr.operator.kind.k = "Slash"
          /\ Evaluate(expr.right).v.unit.some

\* The operator token of the first node in post-order (left operand, right
\* operand, the node itself) that violates the unit rules, if there is one.
RECURSIVE FirstViolation(_)
FirstViolation(expr) ==
    CASE expr.e = "Literal" -> None
      [] expr.e = "Grouping" -> FirstViolation(expr.inner)
      [] expr.e = "Unary" -> FirstViolation(expr.right)
      [] expr.e = "TypeCast" -> FirstViolation(expr.left)
      [] expr.e = "ArithmeticOrLogical" ->
            IF FirstViolation(expr.left).some THEN FirstViolation(expr.left)
            ELSE IF FirstViolation(expr.right).some THEN FirstViolation(expr.right)
            ELSE IF Violates(expr) THEN Some(expr.operator)
            ELSE None

\* The whole text lexes, to Eof, and the grammar accepts its tokens.
LexesAndParses(text) ==
    /\ FirstFailure(LexerNext(LexerNew(text))) = NoItem
    /\ Rejected(TokensOf(text), 1, "operand", 0).at = 0

\* C27: interpret reports the first error in pipeline order: a value error
\* is returned only for a text that lexes and parses as a whole, so a
\* lexical or syntactic error anywhere in the text wins over a unit
\* violation before it; and of several unit violations the one reported is
\* the first in post-order.
C27_FirstErrorInPipelineOrder ==
    (mode = "expr" /\ phase = "done") =>
        /\ (outcome.t = "Err" /\ outcome.err.kind.k = "Value") =>
              /\ LexesAndParses(input)
              /\ FirstViolation(ast.v) = Some(outcome.err.kind.token)
        /\ (ast.some /\ FirstViolation(ast.v).some) =>
              (outcome.t = "Err" /\ outcome.err.kind.k = "Value")

====
